---- MODULE Spec2Model ----
(***************************************************************************)
(* Model of the merge/upsert engine of the Apollo enrichment pipeline      *)
(* (src/db.py): the Truth table held by the SQLite backend, the cached     *)
(* column-name set, and DatabaseManager.upsert_record / upsert_batch.      *)
(***************************************************************************)
EXTENDS Integers, Sequences, FiniteSets, TLC

(***************************************************************************)
(* Column names (src/config.py BASE_COLUMNS).  The model keeps the columns *)
(* the schema treats specially and two of the plain TEXT columns; the      *)
(* other plain TEXT columns behave like "First Name".                      *)
(***************************************************************************)
SN == "S.N."
EMAIL == "Email ID (unique)"
FIRST == "First Name"
LAST == "Last Name"
timestamp_key == "UPDATE AS ON"
EMAIL_SEND_COLUMN == "Email Send (Yes/No)"
BASE_COLUMNS == {SN, FIRST, LAST, EMAIL, timestamp_key, EMAIL_SEND_COLUMN}

\* An extension column (added on demand) and a column that is neither a base
\* column nor provider-prefixed (an unmatched spreadsheet column).
APOLLO_STATUS == "Apollo Person: Email Status"
NOTES == "Notes"

(***************************************************************************)
(* Values.  Python's None (SQL NULL) and float NaN are distinct values.    *)
(***************************************************************************)
None == "<None>"
NaN == "<NaN>"

\* Bounds of the model.
MaxClock == 2
MaxBatch == 2

\* datetime.utcnow().strftime('%Y-%m-%dT%H:%M:%SZ') at clock second t.
Stamps == << "2026-01-29T10:30:45Z", "2026-01-29T10:30:46Z", "2026-01-29T10:30:47Z",
             "2026-01-29T10:30:48Z", "2026-01-29T10:30:49Z" >>
\* Mutant: the timestamp is computed once and reused.
get_utc_timestamp_frozen(t) == Stamps[1]

get_utc_timestamp(t) == Stamps[t]

\* Mutant: NaN is not treated as empty.
_is_empty_without_nan(val) == val = None \/ val = ""

_is_empty(val) == val = None \/ val = "" \/ val = NaN

_has_value(val) == ~ _is_empty(val)

\* sqlite3 parameter binding: a float NaN is stored as NULL.
Bind(val) == IF val = NaN THEN None ELSE val

\* col.startswith(("Apollo Person:", "Apollo Company:"))
StartsWith(s, p) == Len(s) >= Len(p) /\ SubSeq(s, 1, Len(p)) = p
IsApolloColumn(col) == StartsWith(col, "Apollo Person:") \/ StartsWith(col, "Apollo Company:")

\* record.get(key)
Get(record, key) == IF key \in DOMAIN record THEN record[key] ELSE None

\* Python truthiness of the value of record.get("Email ID (unique)"):
\* None and "" are falsy, every other value (NaN included) is truthy.
Falsy(val) == val = None \/ val = ""

EmptyRecord == [c \in {} |-> ""]

VARIABLES
    truth,          \* rows of table Truth: functions from the table's columns to values
    columns,        \* the table's columns (PRAGMA table_info)
    column_cache,   \* _SQLiteBackend.column_cache
    seq,            \* AUTOINCREMENT: the largest S.N. assigned so far
    now,            \* the UTC clock, in seconds
    last,           \* the latest upsert_record or ensure_apollo_columns call and its outcome
    insert_log,     \* the natural keys for which upsert_record returned "insert", in order
    batch,          \* the upsert_batch call in progress or just returned
    request,        \* the _make_request call in progress or just ended
    enrich,         \* the enrich_people_bulk / enrich_organizations_bulk call in progress
    ingest,         \* the latest call of a method of ExcelIngestor
    threads,        \* the upsert_record calls of two concurrent callers
    alter           \* the backend in use and its ensure_apollo_columns call in progress

vars == <<truth, columns, column_cache, seq, now, last, insert_log, batch, request, enrich, ingest,
          threads, alter>>

\* The database as one value.
Db == [truth |-> truth, columns |-> columns, column_cache |-> column_cache, seq |-> seq]

(***************************************************************************)
(* _SQLiteBackend                                                          *)
(***************************************************************************)
\* Mutant: the columns are added and the cache is left as it was.
ensure_apollo_columns_uncached(db, column_names) ==
    [db EXCEPT !.columns = @ \cup {col \in column_names : col \notin db.column_cache},
               !.truth = {row @@ [col \in column_names \ db.columns |-> None] : row \in @}]

\* ALTER TABLE Truth ADD COLUMN for every name not in the cache; a name the
\* table already has raises "duplicate column", which is swallowed without
\* caching the name.
ensure_apollo_columns(db, column_names) ==
    LET new_columns == {col \in column_names : col \notin db.column_cache}
        added == {col \in new_columns : col \notin db.columns}
    IN [db EXCEPT !.columns = @ \cup added,
                  !.column_cache = @ \cup added,
                  !.truth = {row @@ [col \in added |-> None] : row \in @}]

\* Mutant: the lookup never finds the row.
get_existing_record_missing(db, email) == {}

get_existing_record(db, email) == {row \in db.truth : row[EMAIL] = Bind(email)}

\* The constraints of the schema (initialize_schema) on a row about to be
\* written, the row it replaces (if any) excluded from the UNIQUE check.
ConstraintsHold(db, row, others) ==
    /\ row[EMAIL] # None
    /\ row[timestamp_key] # None
    /\ \A o \in others : o[EMAIL] # row[EMAIL] /\ o[SN] # row[SN]

\* Mutant: the identifier carried by the record is not dropped.
PopSn_kept(record) == record

\* record_copy = record.copy(); record_copy.pop("S.N.", None)
PopSn(record) == [c \in DOMAIN record \ {SN} |-> record[c]]

\* INSERT INTO Truth: a statement that names "S.N." sets the identifier, any
\* other gets the next AUTOINCREMENT value.
_insert_record(db, record) ==
    LET record_copy == PopSn(record)
        apollo_columns == {col \in DOMAIN record_copy : IsApolloColumn(col)}
        db1 == IF apollo_columns # {} THEN ensure_apollo_columns(db, apollo_columns) ELSE db
        stmt_columns == DOMAIN record_copy
        sn == IF SN \in stmt_columns THEN record_copy[SN] ELSE db1.seq + 1
        row == [c \in db1.columns |->
                   IF c = SN THEN sn
                   ELSE IF c \in stmt_columns THEN Bind(record_copy[c]) ELSE None]
        ok == stmt_columns \subseteq db1.columns /\ ConstraintsHold(db1, row, db1.truth)
    IN [db |-> IF ok THEN [db1 EXCEPT !.truth = @ \cup {row},
                                      !.seq = IF sn > @ THEN sn ELSE @]
               ELSE db1,
        ok |-> ok, sn |-> IF ok THEN sn ELSE -1,
        stmt |-> "INSERT", stmt_columns |-> stmt_columns]

_update_record(db, record) ==
    LET sn == record[SN]
        apollo_columns == {col \in DOMAIN record : IsApolloColumn(col)}
        db1 == IF apollo_columns # {} THEN ensure_apollo_columns(db, apollo_columns) ELSE db
        update_cols == DOMAIN record \ {SN}
        NewRow(row) == [c \in db1.columns |->
                            IF c \in update_cols THEN Bind(record[c]) ELSE row[c]]
        targets == {row \in db1.truth : row[SN] = sn}
        ok == /\ update_cols \subseteq db1.columns
              /\ \A row \in targets : ConstraintsHold(db1, NewRow(row), db1.truth \ {row})
    IN [db |-> IF ok THEN [db1 EXCEPT !.truth = (@ \ targets) \cup {NewRow(row) : row \in targets}]
               ELSE db1,
        ok |-> ok, sn |-> IF ok THEN sn ELSE -1,
        stmt |-> "UPDATE", stmt_columns |-> update_cols]

(***************************************************************************)
(* DatabaseManager.upsert_record                                           *)
(***************************************************************************)
\* Mutant: the protected column is merged like any other.
MergeKeys_unprotected(record) == DOMAIN record \ {SN}

\* The keys of the incoming record the merge loop looks at.
MergeKeys(record) == DOMAIN record \ {SN, EMAIL_SEND_COLUMN}

\* Mutant: an incoming non-empty value overwrites the stored one.
Adopted_overwrite(existing, record) ==
    {key \in MergeKeys(record) : key \notin DOMAIN existing \/ _has_value(record[key])}

\* The keys whose incoming value the loop adopts into merged.
Adopted(existing, record) ==
    {key \in MergeKeys(record) :
        \/ key \notin DOMAIN existing
        \/ _is_empty(existing[key]) /\ _has_value(record[key])}

\* Mutant: every non-empty incoming value is counted.
Filled_any(existing, record) == {key \in MergeKeys(record) : _has_value(record[key])}

\* Mutant: every adopted key is counted, its value empty or not.
Filled_adopted(existing, record) == Adopted(existing, record)

\* The keys the loop counts in fields_filled.
Filled(existing, record) ==
    {key \in MergeKeys(record) :
        \/ key \notin DOMAIN existing /\ _has_value(record[key])
        \/ /\ key \in DOMAIN existing
           /\ _is_empty(existing[key]) /\ _has_value(record[key])
           /\ key # timestamp_key}

\* Mutant: the stored value is kept even when it is empty.
Merged_kept(existing, record) ==
    [key \in DOMAIN existing \cup Adopted(existing, record) |->
        IF key \in DOMAIN existing THEN existing[key] ELSE record[key]]

Merged(existing, record) ==
    [key \in DOMAIN existing \cup Adopted(existing, record) |->
        IF key \in Adopted(existing, record) THEN record[key] ELSE existing[key]]

\* Mutant: a write statement that raises takes the rows written before it
\* with it.
Written_rows_discarded(res, action, sn) ==
    [db |-> IF res.ok THEN res.db ELSE [res.db EXCEPT !.truth = {}],
     action |-> IF res.ok THEN action ELSE "error",
     sn |-> IF res.ok THEN sn ELSE -1,
     stmt |-> res.stmt, stmt_columns |-> res.stmt_columns,
     error |-> IF res.ok THEN "" ELSE res.stmt \o " failed"]

\* What upsert_record hands back after a write statement: the database as the
\* statement left it, and the action, or "error" when the statement raised.
Written(res, action, sn) ==
    [db |-> res.db, action |-> IF res.ok THEN action ELSE "error",
     sn |-> IF res.ok THEN sn ELSE -1,
     stmt |-> res.stmt, stmt_columns |-> res.stmt_columns,
     error |-> IF res.ok THEN "" ELSE res.stmt \o " failed"]

\* upsert_record after its lookup gave the rows found: the database
\* afterwards, the action ("error" when the call raises), the identifier
\* returned and the write statement issued, if any.
upsert_record_found(db, record, t, found) ==
    IF found = {}
    THEN LET stamped == [c \in DOMAIN record \cup {timestamp_key} |->
                            IF c = timestamp_key THEN get_utc_timestamp(t) ELSE record[c]]
             new == IF EMAIL_SEND_COLUMN \notin DOMAIN stamped
                    THEN stamped @@ (EMAIL_SEND_COLUMN :> "No") ELSE stamped
         IN \* the sn returned is cursor.lastrowid
            LET ins == _insert_record(db, new) IN Written(ins, "insert", ins.sn)
    ELSE LET existing == CHOOSE row \in found : TRUE
             fields_filled == Cardinality(Filled(existing, record))
             merged0 == Merged(existing, record)
             merged == [key \in DOMAIN merged0 |->
                           IF key = timestamp_key THEN get_utc_timestamp(t)
                           ELSE IF key = SN THEN existing[SN] ELSE merged0[key]]
         IN IF fields_filled = 0
            THEN [db |-> db, action |-> "skip", sn |-> existing[SN],
                  stmt |-> "none", stmt_columns |-> {}, error |-> ""]
            ELSE Written(_update_record(db, merged), "update", existing[SN])

\* The outcome of upsert_record(record) on database db at clock second t,
\* nothing else touching the database between its lookup and its write.
upsert_record(db, record, t) ==
    IF Falsy(Get(record, EMAIL))
    THEN [db |-> db, action |-> "error", sn |-> -1, stmt |-> "none", stmt_columns |-> {},
          error |-> "Email ID (unique) is required for upsert"]
    ELSE upsert_record_found(db, record, t, get_existing_record(db, Get(record, EMAIL)))

(***************************************************************************)
(* Inputs: the records handed to upsert_record and upsert_batch.           *)
(***************************************************************************)
Absent == "<absent>"

\* A dict with the given values, the keys marked Absent left out; sn = 0
\* stands for a dict without "S.N.".
MakeRecord(email, first, lastname, send, status, notes, sn, stamp) ==
    LET all == (EMAIL :> email) @@ (FIRST :> first) @@ (LAST :> lastname)
               @@ (EMAIL_SEND_COLUMN :> send) @@ (APOLLO_STATUS :> status)
               @@ (NOTES :> notes) @@ (timestamp_key :> stamp)
        text == [c \in {k \in DOMAIN all : all[k] # Absent} |-> all[c]]
    IN IF sn = 0 THEN text ELSE text @@ (SN :> sn)

KeyA == "a@b.com"
KeyC == "c@d.org"
OldStamp == "2020-01-01T00:00:00Z"
\* an identifier carried by an incoming record (a re-uploaded export)
CarriedSn == 7

\* {email: "a@b.com", firstName: "", lastName: empty} and
\* {email: "a@b.com", firstName: "Jane"}
EmptyNames == MakeRecord(KeyA, "", None, Absent, Absent, Absent, 0, Absent)
OnlyJane == MakeRecord(KeyA, "Jane", Absent, Absent, Absent, Absent, 0, Absent)

RecordsA ==
    \* name and extension column
    {MakeRecord(KeyA, f, Absent, Absent, s, Absent, 0, Absent) :
        f \in {Absent, "", "Jane", "Joan"}, s \in {Absent, NaN, "verified"}}
    \* the protected column
    \cup {MakeRecord(KeyA, f, Absent, s, Absent, Absent, 0, Absent) :
        f \in {Absent, "Jane"}, s \in {"", "Yes", "No"}}
    \* empty first and last name
    \cup {EmptyNames}
    \* a column that is neither in the base schema nor provider-prefixed
    \cup {MakeRecord(KeyA, f, Absent, Absent, Absent, n, 0, Absent) :
        f \in {Absent, "Jane"}, n \in {"", "n"}}
    \cup {MakeRecord(KeyA, Absent, Absent, Absent, "verified", "n", 0, Absent)}
    \* an identifier or a timestamp carried by the record
    \cup {MakeRecord(KeyA, "Jane", Absent, Absent, Absent, Absent, CarriedSn, Absent),
          MakeRecord(KeyA, "Jane", Absent, Absent, Absent, Absent, 0, OldStamp)}

RecordsC ==
    {MakeRecord(KeyC, "Joan", Absent, Absent, Absent, Absent, 0, Absent)}

\* records without a usable natural key
RecordsNoKey ==
    {MakeRecord(e, "Jane", Absent, Absent, Absent, Absent, 0, Absent) : e \in {Absent, "", NaN}}
    \cup {MakeRecord(NaN, Absent, Absent, Absent, "verified", Absent, 0, Absent)}

Records == RecordsA \cup RecordsC \cup RecordsNoKey

\* The lists handed to upsert_batch are drawn from these records.
BatchRecords ==
    { EmptyNames, OnlyJane,
      MakeRecord(Absent, "Jane", Absent, Absent, Absent, Absent, 0, Absent) }

BatchLists == UNION {[1..n -> BatchRecords] : n \in 0..MaxBatch}

\* Records whose write statement raises inside upsert_batch: an INSERT or UPDATE
\* naming a column the table lacks, with or without a provider column beside it.
NotesJane == MakeRecord(KeyA, "Jane", Absent, Absent, Absent, "n", 0, Absent)
NotesVerified == MakeRecord(KeyA, Absent, Absent, Absent, "verified", "n", 0, Absent)
NoKeyJane == MakeRecord(Absent, "Jane", Absent, Absent, Absent, Absent, 0, Absent)

FailingBatchRecords ==
    { OnlyJane, NotesJane, NotesVerified, NoKeyJane,
      MakeRecord(KeyA, Absent, Absent, Absent, "verified", Absent, 0, Absent),
      MakeRecord(KeyC, "Joan", Absent, Absent, Absent, Absent, 0, Absent) }

\* A list whose second record fails between two records that are written.
WrittenFailedWritten ==
    <<OnlyJane, NotesVerified, MakeRecord(KeyC, "Joan", Absent, Absent, Absent, Absent, 0, Absent)>>

FailingBatchLists ==
    UNION {[1..n -> FailingBatchRecords] : n \in 0..MaxBatch} \cup {WrittenFailedWritten}

(***************************************************************************)
(* ApolloClient._make_request                                              *)
(***************************************************************************)
\* config.py defaults
APOLLO_MAX_RETRIES == 5
APOLLO_TIMEOUT == 30
APOLLO_INITIAL_BACKOFF == 1
APOLLO_MAX_BACKOFF == 60

\* The settings a call runs under: the defaults; the retry budget the tests
\* patch in, with a low backoff cap and the smallest timeout the settings
\* accept; and a budget of one attempt.
Configs ==
    { [max_retries |-> APOLLO_MAX_RETRIES, timeout |-> APOLLO_TIMEOUT,
       initial_backoff |-> APOLLO_INITIAL_BACKOFF, max_backoff |-> APOLLO_MAX_BACKOFF],
      [max_retries |-> 3, timeout |-> 1,
       initial_backoff |-> APOLLO_INITIAL_BACKOFF, max_backoff |-> 2],
      [max_retries |-> 1, timeout |-> 10,
       initial_backoff |-> APOLLO_INITIAL_BACKOFF, max_backoff |-> APOLLO_MAX_BACKOFF] }

\* What session.post gives: a response with a status code and, for 200, a JSON
\* body; requests.Timeout; or another requests.RequestException.
HttpResponse(status, body) == [kind |-> "response", status |-> status, body |-> body]
Timeout == [kind |-> "timeout", status |-> 0, body |-> ""]
ConnectionError == [kind |-> "error", status |-> 0, body |-> ""]

Statuses == {204, 302, 400, 404, 429, 500, 599}
RequestBodies == {"body-1", "body-2"}

PostOutcomes ==
    {HttpResponse(200, body) : body \in RequestBodies}
    \cup {HttpResponse(status, "") : status \in Statuses}
    \cup {Timeout, ConnectionError}

RECURSIVE Pow2(_)
Pow2(n) == IF n = 0 THEN 1 ELSE 2 * Pow2(n - 1)

\* Mutant: the delay is not capped.
_calculate_backoff_uncapped(cfg, attempt) == cfg.initial_backoff * Pow2(attempt)

_calculate_backoff(cfg, attempt) ==
    LET backoff == cfg.initial_backoff * Pow2(attempt)
    IN IF backoff < cfg.max_backoff THEN backoff ELSE cfg.max_backoff

\* Mutant: a status that is neither 200, 429 nor 5xx is retried too.
Retryable_any(outcome) == outcome.kind = "timeout" \/ outcome.kind = "response"

\* The outcomes after which the loop sleeps and goes round again.
Retryable(outcome) ==
    \/ outcome.kind = "timeout"
    \/ outcome.kind = "response"
       /\ (outcome.status = 429 \/ (500 <= outcome.status /\ outcome.status < 600))

\* Mutant: the loop runs one attempt past the budget.
BudgetLeft_one_more(req) == req.attempt < req.cfg.max_retries + 1

\* while attempt < config.APOLLO_MAX_RETRIES
BudgetLeft(req) == req.attempt < req.cfg.max_retries

\* Mutant: every retry raises the timeout, whatever caused it.
NextTimeout_any(timeout, outcome) == (timeout * 3) \div 2

\* The timeout of the next round: timeout = int(timeout * 1.5) in the handler
\* of requests.Timeout, and the same timeout after a 429 or a 5xx.
NextTimeout(timeout, outcome) ==
    IF outcome.kind = "timeout" THEN (timeout * 3) \div 2 ELSE timeout

\* phase: "idle" (no call), "running" (between two attempts), "returned", "raised";
\* calls: the HTTP calls made so far, each with the timeout it was given;
\* delays: the backoff delays slept so far.
NoRequest ==
    [phase |-> "idle", cfg |-> CHOOSE cfg \in Configs : cfg.max_retries = APOLLO_MAX_RETRIES,
     attempt |-> 0, timeout |-> 0, calls |-> <<>>, delays |-> <<>>,
     body |-> "", error |-> "", status |-> 0]

Exhausted(req) ==
    [req EXCEPT !.phase = "raised", !.error = "Request failed after attempts"]

\* _make_request up to its first attempt: timeout = timeout or config.APOLLO_TIMEOUT.
StartRequest(cfg) ==
    LET req == [NoRequest EXCEPT !.phase = "running", !.cfg = cfg, !.timeout = cfg.timeout]
    IN IF BudgetLeft(req) THEN req ELSE Exhausted(req)

\* One round of the loop of _make_request, in which session.post gives outcome;
\* a round that uses up the budget ends in the raise after the loop.
Attempt(req, outcome) ==
    LET called == [req EXCEPT !.calls = Append(@, [outcome |-> outcome, timeout |-> req.timeout])]
    IN IF outcome.kind = "response" /\ outcome.status = 200
       THEN [called EXCEPT !.phase = "returned", !.body = outcome.body]
       ELSE IF Retryable(outcome)
       THEN LET slept == [called EXCEPT
                             !.delays = Append(@, _calculate_backoff(req.cfg, req.attempt)),
                             !.attempt = @ + 1,
                             !.timeout = NextTimeout(@, outcome)]
            IN IF BudgetLeft(slept) THEN slept ELSE Exhausted(slept)
       ELSE IF outcome.kind = "response"
       THEN [called EXCEPT !.phase = "raised", !.error = "API error", !.status = outcome.status]
       ELSE [called EXCEPT !.phase = "raised", !.error = "Request failed"]

(***************************************************************************)
(* utils.chunk_list, utils.extract_domain                                  *)
(***************************************************************************)
\* items[i:i + chunk_size] for i in range(0, len(items), chunk_size)
RECURSIVE chunk_list(_, _)
chunk_list(items, chunk_size) ==
    IF items = <<>> THEN <<>>
    ELSE IF Len(items) <= chunk_size THEN <<items>>
    ELSE <<SubSeq(items, 1, chunk_size)>>
         \o chunk_list(SubSeq(items, chunk_size + 1, Len(items)), chunk_size)

\* str.strip() for blanks
RECURSIVE Strip(_)
Strip(s) ==
    IF s = "" THEN s
    ELSE IF SubSeq(s, 1, 1) = " " THEN Strip(SubSeq(s, 2, Len(s)))
    ELSE IF SubSeq(s, Len(s), Len(s)) = " " THEN Strip(SubSeq(s, 1, Len(s) - 1))
    ELSE s

UpperCase == "ABCDEFGHIJKLMNOPQRSTUVWXYZ"
LowerCase == "abcdefghijklmnopqrstuvwxyz"

\* str.lower()
RECURSIVE Lower(_)
Lower(s) ==
    IF s = "" THEN s
    ELSE LET c == SubSeq(s, 1, 1)
             at == {k \in 1..Len(UpperCase) : SubSeq(UpperCase, k, k) = c}
         IN (IF at = {} THEN c ELSE LET k == CHOOSE k \in at : TRUE IN SubSeq(LowerCase, k, k))
            \o Lower(SubSeq(s, 2, Len(s)))

\* The text of s before the first "/", and the text from it on.
RECURSIVE UpToSlash(_)
UpToSlash(s) ==
    IF s = "" \/ SubSeq(s, 1, 1) = "/" THEN ""
    ELSE SubSeq(s, 1, 1) \o UpToSlash(SubSeq(s, 2, Len(s)))

\* Mutant: the URL is sent as it stands.
extract_domain_identity(url) == IF url = "" THEN None ELSE url

\* urlparse(url).netloc or .path, without a leading "www.", in lower case;
\* None when nothing is left.
extract_domain(url) ==
    LET WithScheme(u) ==
            IF StartsWith(u, "http://") \/ StartsWith(u, "https://") THEN u
            ELSE "https://" \o u
        AfterScheme(full) ==
            IF StartsWith(full, "https://") THEN SubSeq(full, 9, Len(full))
            ELSE SubSeq(full, 8, Len(full))
        NetlocOrPath(rest, netloc) ==
            IF netloc # "" THEN netloc ELSE SubSeq(rest, Len(netloc) + 1, Len(rest))
        Domain(rest) == NetlocOrPath(rest, UpToSlash(rest))
        WithoutWww(domain) ==
            IF StartsWith(domain, "www.") THEN SubSeq(domain, 5, Len(domain)) ELSE domain
        LowerOrNone(domain) == IF domain = "" THEN None ELSE Lower(domain)
    IN IF url = "" THEN None
       ELSE LowerOrNone(WithoutWww(Domain(AfterScheme(WithScheme(url)))))

(***************************************************************************)
(* ApolloClient.enrich_people_bulk, enrich_organizations_bulk              *)
(***************************************************************************)
WEBSITE == "Website URLs"
COMPANY == "Company Name (Based on Website Domain)"
LISTED == "Listed Company"
APOLLO_DOMAIN == "Apollo Company: Primary Domain"
ERROR_MARKER == "_enrichment_error"

\* the provider's cap on the records of one request
MaxPerRequest == 10
APOLLO_BATCH_SIZE == 25

\* record.get(key) is truthy
Truthy(record, key) == ~ Falsy(Get(record, key))

\* dict.update
Update(record, data) ==
    [key \in DOMAIN record \cup DOMAIN data |->
        IF key \in DOMAIN data THEN data[key] ELSE record[key]]

\* The fields of a dict d under the keys for which the test holds.
Only(d, keys) == [key \in keys |-> d[key]]

\* _make_request against a provider that answers the first attempt with
\* answers.first and every later one with answers.rest.
RECURSIVE RunRequest(_, _)
RunRequest(req, answers) ==
    IF req.phase # "running" THEN req
    ELSE RunRequest(Attempt(req, IF req.calls = <<>> THEN answers.first ELSE answers.rest),
                    answers)

_make_request(cfg, answers) == RunRequest(StartRequest(cfg), answers)

\* response.get("matches", [])
MatchesOf(response) == IF "matches" \in DOMAIN response THEN response["matches"] ELSE <<>>

_prepare_people_payload(records) ==
    [details |->
        [i \in 1..Len(records) |->
            LET record == records[i]
                org == IF Truthy(record, WEBSITE) THEN ("organization_domain" :> record[WEBSITE])
                       ELSE IF Truthy(record, COMPANY)
                       THEN ("organization_name" :> record[COMPANY])
                       ELSE EmptyRecord
                all == ("first_name" :> Get(record, FIRST)) @@ ("last_name" :> Get(record, LAST))
                       @@ ("email" :> Get(record, EMAIL))
             IN Only(all, {key \in DOMAIN all : ~ Falsy(all[key])}) @@ org]]

\* The columns mapped from the keys of a provider dict that hold a truthy value.
Mapped(data, columns_of) ==
    LET keys == {key \in DOMAIN columns_of : key \in DOMAIN data /\ ~ Falsy(data[key])}
    IN [col \in {columns_of[key] : key \in keys} |->
           data[CHOOSE key \in keys : columns_of[key] = col]]

map_apollo_person_response(person) ==
    Mapped(person, ("first_name" :> FIRST) @@ ("last_name" :> LAST) @@ ("email" :> EMAIL)
                   @@ ("email_status" :> APOLLO_STATUS))

map_apollo_company_response(org) ==
    Mapped(org, ("name" :> COMPANY) @@ ("website_url" :> WEBSITE)
                @@ ("primary_domain" :> APOLLO_DOMAIN))
    @@ (LISTED :> IF Truthy(org, "publicly_traded_symbol") THEN "Yes" ELSE "No")

\* Mutant: the match of the first record is merged into every record.
MatchAt_first(matches, i) == IF matches # <<>> THEN matches[1] ELSE EmptyRecord

\* Mutant: a record past the end of the array gets the array's last match.
MatchAt_last(matches, i) ==
    IF matches = <<>> THEN EmptyRecord
    ELSE matches[IF i <= Len(matches) THEN i ELSE Len(matches)]

\* matches[i] if i < len(matches) else nothing; an empty dict stands for null.
MatchAt(matches, i) == IF i <= Len(matches) THEN matches[i] ELSE EmptyRecord

_parse_people_response(response, original_records) ==
    [i \in 1..Len(original_records) |->
        LET match == MatchAt(MatchesOf(response), i)
        IN IF match = EmptyRecord THEN original_records[i]
           ELSE LET person_data == map_apollo_person_response(match)
                    org_data == IF "organization" \in DOMAIN match
                                THEN map_apollo_company_response(match["organization"])
                                ELSE EmptyRecord
                IN Update(Update(original_records[i], person_data), org_data)]

_parse_org_response(response, original_records) ==
    [i \in 1..Len(original_records) |->
        LET match == MatchAt(MatchesOf(response), i)
        IN IF match = EmptyRecord THEN original_records[i]
           ELSE Update(original_records[i], map_apollo_company_response(match))]

\* A JSON string where the client expects a dict or null.
JsonString(text) == ("<string>" :> text)

\* map_apollo_person_response / map_apollo_company_response call .get on the
\* match: a truthy match that is no dict raises AttributeError.
ParseRaises(response, original_records) ==
    \E i \in 1..Len(original_records) :
        /\ i <= Len(MatchesOf(response))
        /\ MatchesOf(response)[i] # EmptyRecord
        /\ "<string>" \in DOMAIN MatchesOf(response)[i]

\* str(e) of the exception the try block of a group catches, "" if it catches
\* none: the error of the request, or the one parsing its answer raises.
Raised(req, original_records) ==
    IF req.phase # "returned" THEN req.error
    ELSE IF ParseRaises(req.body, original_records)
    THEN "'str' object has no attribute 'get'" ELSE ""

\* Mutant: only the first record of the group gets the marker.
Marked_first_only(group, error) ==
    [i \in 1..Len(group) |-> IF i = 1 THEN Update(group[i], ERROR_MARKER :> error) ELSE group[i]]

\* {**record, "_enrichment_error": str(e)} for every record of the group
Marked(group, error) ==
    [i \in 1..Len(group) |-> Update(group[i], ERROR_MARKER :> error)]

\* has_domain, has_company
HasText(record, key) == Truthy(record, key) /\ Strip(record[key]) # ""

\* The domain the organization lookup sends for a record, None if it sends none.
DomainOf(record) ==
    IF HasText(record, WEBSITE) THEN extract_domain(Strip(record[WEBSITE])) ELSE None

\* What the provider returns for one item of a request.
PersonMatchFor(detail) ==
    ("email_status" :> "verified") @@ ("first_name" :> detail["first_name"])
    @@ ("last_name" :> "of " \o detail["first_name"])

OrgMatchFor(domain) == ("name" :> "Org " \o domain) @@ ("primary_domain" :> domain)

\* The ways the provider answers a request: a match per item; a null first
\* match and no last match; 400; 500 once and then a match per item; timeouts;
\* a match per item, the last one a string where a dict is expected; a match
\* per item that carries the address the provider has on file for the person;
\* 204; 302.
Behaviours ==
    {"full", "gaps", "bad_request", "flaky", "down", "malformed", "on_file",
     "no_content", "redirect"}

ProviderAnswers(behaviour, endpoint, items) ==
    LET full == [i \in 1..Len(items) |->
                    IF endpoint = "people" THEN PersonMatchFor(items[i])
                    ELSE OrgMatchFor(items[i])]
        gaps == [i \in 1..(Len(items) - 1) |-> IF i = 1 THEN EmptyRecord ELSE full[i]]
        malformed == [i \in 1..Len(items) |->
                         IF i = Len(items) THEN JsonString("n/a") ELSE full[i]]
        on_file == [i \in 1..Len(items) |->
                       IF endpoint = "people" /\ "email" \in DOMAIN items[i]
                       THEN ("email" :> "work." \o items[i]["email"]) @@ full[i]
                       ELSE full[i]]
        ok == HttpResponse(200, [matches |-> full])
    IN IF behaviour = "full" THEN [first |-> ok, rest |-> ok]
       ELSE IF behaviour = "gaps"
       THEN [first |-> HttpResponse(200, [matches |-> gaps]), rest |-> ok]
       ELSE IF behaviour = "bad_request"
       THEN [first |-> HttpResponse(400, ""), rest |-> HttpResponse(400, "")]
       ELSE IF behaviour = "flaky" THEN [first |-> HttpResponse(500, ""), rest |-> ok]
       ELSE IF behaviour = "malformed"
       THEN [first |-> HttpResponse(200, [matches |-> malformed]), rest |-> ok]
       ELSE IF behaviour = "on_file"
       THEN [first |-> HttpResponse(200, [matches |-> on_file]), rest |-> ok]
       ELSE IF behaviour = "no_content"
       THEN [first |-> HttpResponse(204, ""), rest |-> HttpResponse(204, "")]
       ELSE IF behaviour = "redirect"
       THEN [first |-> HttpResponse(302, ""), rest |-> HttpResponse(302, "")]
       ELSE [first |-> Timeout, rest |-> Timeout]

\* The status codes of the answers to the HTTP calls of a request, in order;
\* 0 for a call that raised.
StatusesOf(req) == [k \in 1..Len(req.calls) |-> req.calls[k].outcome.status]

\* The matches array of the answer a request returned, empty if it raised.
Answered(req) == IF req.phase = "returned" THEN MatchesOf(req.body) ELSE <<>>

\* One round of the loop of enrich_people_bulk on one group, the provider
\* behaving as given: the records appended to all_results and the request made.
PeopleGroup(cfg, group, behaviour) ==
    LET payload == _prepare_people_payload(group)
        req == _make_request(cfg, ProviderAnswers(behaviour, "people", payload.details))
        error == Raised(req, group)
    IN [results |-> IF error = "" THEN _parse_people_response(req.body, group)
                    ELSE Marked(group, error),
        sent |-> <<[items |-> payload.details, calls |-> Len(req.calls), error |-> error,
                    matches |-> Answered(req), statuses |-> StatusesOf(req)]>>]

\* One round of the loop of enrich_organizations_bulk.
OrgGroup(cfg, group, behaviour) ==
    LET WithInfo(record) == HasText(record, WEBSITE) \/ HasText(record, COMPANY)
        WithoutInfo(record) == ~ WithInfo(record)
        records_with_org_info == SelectSeq(group, WithInfo)
        records_without_org_info == SelectSeq(group, WithoutInfo)
        WithDomain(record) == DomainOf(record) # None
        records_with_domain == SelectSeq(records_with_org_info, WithDomain)
        domains == [i \in 1..Len(records_with_domain) |-> DomainOf(records_with_domain[i])]
        OnlyCompany(record) ==
            \A i \in 1..Len(records_with_domain) : records_with_domain[i] # record
        records_with_only_company == SelectSeq(records_with_org_info, OnlyCompany)
    IN IF domains = <<>>
       THEN [results |-> records_with_org_info \o records_without_org_info, sent |-> <<>>]
       ELSE LET req == _make_request(cfg, ProviderAnswers(behaviour, "organizations", domains))
                error == Raised(req, records_with_domain)
            IN [results |->
                   IF error = ""
                   THEN _parse_org_response(req.body, records_with_domain)
                        \o records_with_only_company \o records_without_org_info
                   ELSE Marked(group, error),
                sent |-> <<[items |-> domains, calls |-> Len(req.calls), error |-> error,
                            matches |-> Answered(req), statuses |-> StatusesOf(req)]>>]

\* Mutant: the requested batch size is used as it is.
GroupSize_uncapped(batch_size) == IF batch_size = 0 THEN APOLLO_BATCH_SIZE ELSE batch_size

\* batch_size = min(batch_size or config.APOLLO_BATCH_SIZE, 10); 0 stands for None
GroupSize(batch_size) ==
    LET size == IF batch_size = 0 THEN APOLLO_BATCH_SIZE ELSE batch_size
    IN IF size < MaxPerRequest THEN size ELSE MaxPerRequest

\* The settings enrichment runs under.
DefaultConfig == NoRequest.cfg

MaxRecords == 11
MaxMixed == 3

Digits == <<"1", "2", "3", "4", "5", "6", "7", "8", "9", "10", "11", "12">>

\* The record at position i of an input list: a lead with a website, with a
\* company name and an empty website, with neither, with a website value that
\* holds no domain, or with an email.
Lead(i, kind) ==
    (FIRST :> "Lead " \o Digits[i])
    @@ (IF kind = "domain" THEN (WEBSITE :> " https://www.Site" \o Digits[i] \o ".com/about ")
        ELSE IF kind = "company" THEN (COMPANY :> "Company " \o Digits[i]) @@ (WEBSITE :> " ")
        ELSE IF kind = "unresolved" THEN (WEBSITE :> "https://")
        ELSE IF kind = "keyed" THEN (EMAIL :> "lead" \o Digits[i] \o "@x.com")
        ELSE EmptyRecord)

Leads(kinds) == [i \in 1..Len(kinds) |-> Lead(i, kinds[i])]

OrgKinds == {"domain", "company", "neither", "unresolved"}
PeopleKinds == {"neither", "keyed"}

\* The calls made: short lists of every mix with small batch sizes, and lists
\* around the provider's cap with batch sizes at and above it; batch size 0
\* stands for None.
EnrichInputs ==
    {[endpoint |-> "organizations", records |-> Leads(kinds), batch_size |-> size] :
        kinds \in UNION {[1..n -> OrgKinds] : n \in 0..MaxMixed}, size \in {0, 1, 2}}
    \cup {[endpoint |-> "people", records |-> Leads(kinds), batch_size |-> size] :
        kinds \in UNION {[1..n -> PeopleKinds] : n \in 0..MaxMixed}, size \in {1, 2}}
    \cup {[endpoint |-> e, records |-> Leads([i \in 1..n |-> "domain"]), batch_size |-> size] :
        e \in {"people", "organizations"}, n \in (MaxPerRequest - 1)..MaxRecords,
        size \in {0, 4, MaxPerRequest, APOLLO_BATCH_SIZE}}

\* phase: "idle", "running" (i groups done), "returned"; sent: the provider
\* requests made, each with its group, its items, its number of HTTP calls,
\* the status codes it was answered with and the matches array of its answer.
NoEnrich ==
    [phase |-> "idle", endpoint |-> "people", records |-> <<>>, batch_size |-> 0,
     i |-> 0, all_results |-> <<>>, sent |-> <<>>]

\* No method of ExcelIngestor has been called.
NoIngest == [op |-> "none"]

\* The callers that use the store at the same time, each through its own
\* DatabaseManager; pc: "idle", "looked" (between the lookup and the write of
\* upsert_record), "done"; found: what the lookup gave; filled: the keys the
\* call counted in fields_filled; raced: the call did its lookup before the
\* write of the other caller's call, and that one its lookup before this
\* call's write.
Callers == {1, 2}
NoThread == [pc |-> "idle", rec |-> EmptyRecord, found |-> {}, action |-> "none",
             filled |-> {}, raced |-> FALSE]
NoThreads == [p \in Callers |-> NoThread]

(***************************************************************************)
(* The state machine                                                       *)
(***************************************************************************)
\* rel and prev relate a call to the upsert_record call before it: rel is "same"
\* when both were given the same record, "one_changed" when the records differ
\* in the non-empty value of exactly one field, "other" otherwise; prev is the
\* action of the call before when rel is not "other".
NoCall == [rec |-> EmptyRecord, action |-> "none", sn |-> -1,
           stmt |-> "none", stmt_columns |-> {}, error |-> "",
           rel |-> "other", prev |-> "none"]

Relation(before, record) ==
    IF before.action = "none" \/ DOMAIN before.rec # DOMAIN record THEN "other"
    ELSE LET changed == {key \in DOMAIN record : before.rec[key] # record[key]}
         IN IF changed = {} THEN "same"
            ELSE IF /\ Cardinality(changed) = 1
                    /\ \A key \in changed :
                          key # SN /\ _has_value(before.rec[key]) /\ _has_value(record[key])
            THEN "one_changed" ELSE "other"

\* stats as upsert_batch initialises it
NoStats == [inserted |-> 0, updated |-> 0, failed |-> 0,
            inserted_emails |-> <<>>, updated_emails |-> <<>>, failed_records |-> <<>>]

\* phase: "idle" (no call), "running" (in the loop, i records done), "returned";
\* DatabaseManager.__init__ builds _PostgresBackend when DATABASE_URL is set
\* and _SQLiteBackend otherwise.
Backends == {"sqlite", "postgres"}

\* No ensure_apollo_columns call is in progress.  todo: the rest of
\* new_columns; pending: the columns added in the open transaction and not
\* committed; aborted: the server has marked the open transaction as failed;
\* raised: the latest call ended with an exception.
NoAlter == [backend |-> "sqlite", pc |-> "idle", todo |-> <<>>, pending |-> {},
            aborted |-> FALSE, raised |-> FALSE]

\* again: the call was made with the list of the call that returned just before it.
NoBatch == [phase |-> "idle", records |-> <<>>, i |-> 0, sns |-> <<>>, stats |-> NoStats,
            again |-> FALSE]

Init ==
    /\ truth = {}
    /\ columns = BASE_COLUMNS
    /\ column_cache = BASE_COLUMNS
    /\ seq = 0
    /\ now = 1
    /\ last = NoCall
    /\ insert_log = <<>>
    /\ batch = NoBatch
    /\ request = NoRequest
    /\ enrich = NoEnrich
    /\ ingest = NoIngest
    /\ threads = NoThreads
    /\ alter = NoAlter

\* Wall-clock time passes.
Tick ==
    /\ now < MaxClock
    /\ now' = now + 1
    /\ UNCHANGED <<truth, columns, column_cache, seq, last, insert_log, batch, request, enrich, ingest, threads, alter>>

\* The outcome of upsert_record(record) in the current state, and how the
\* call relates to the one before it.
Outcome(record) == upsert_record(Db, record, now) @@ [rel |-> Relation(last, record)]

\* The state change of one call upsert_record(record) with outcome res.
Apply(record, res) ==
    /\ truth' = res.db.truth
    /\ columns' = res.db.columns
    /\ column_cache' = res.db.column_cache
    /\ seq' = res.db.seq
    /\ last' = [rec |-> record, action |-> res.action, sn |-> res.sn,
                stmt |-> res.stmt, stmt_columns |-> res.stmt_columns, error |-> res.error,
                rel |-> res.rel,
                prev |-> IF res.rel = "other" THEN "none" ELSE last.action]
    /\ insert_log' = IF res.action = "insert" THEN Append(insert_log, Bind(record[EMAIL]))
                     ELSE insert_log

\* A caller invokes upsert_record(record).
UpsertRecord(record) ==
    /\ batch.phase # "running"
    /\ \E res \in {Outcome(record)} : Apply(record, res)
    /\ batch' = NoBatch
    /\ UNCHANGED <<now, request, enrich, ingest, threads, alter>>

\* A caller invokes upsert_batch(records).
UpsertBatchCall(records) ==
    /\ batch.phase # "running"
    /\ batch' = [phase |-> "running", records |-> records, i |-> 0, sns |-> <<>>,
                 stats |-> NoStats,
                 again |-> batch.phase = "returned" /\ batch.records = records]
    /\ last' = NoCall
    /\ UNCHANGED <<truth, columns, column_cache, seq, now, insert_log, request, enrich, ingest, threads, alter>>

\* Mutant: a record whose upsert raises is not counted.
Count_failures_dropped(stats, email, res) ==
    IF res.action = "insert"
    THEN [stats EXCEPT !.inserted = @ + 1, !.inserted_emails = Append(@, email)]
    ELSE IF res.action = "update"
    THEN [stats EXCEPT !.updated = @ + 1, !.updated_emails = Append(@, email)]
    ELSE stats

\* The statistics after one iteration of the loop of upsert_batch.
Count(stats, email, res) ==
    IF res.action = "error"
    THEN [stats EXCEPT !.failed = @ + 1,
                       !.failed_records = Append(@, [email |-> email, error |-> res.error])]
    ELSE IF res.action = "insert"
    THEN [stats EXCEPT !.inserted = @ + 1, !.inserted_emails = Append(@, email)]
    ELSE IF res.action = "update"
    THEN [stats EXCEPT !.updated = @ + 1, !.updated_emails = Append(@, email)]
    ELSE stats

\* One iteration of the loop of upsert_batch.
UpsertBatchStep ==
    /\ batch.phase = "running"
    /\ batch.i < Len(batch.records)
    /\ LET record == batch.records[batch.i + 1]
           email == IF Falsy(Get(record, EMAIL)) THEN "" ELSE record[EMAIL]
       IN \E res \in {Outcome(record)} :
            /\ Apply(record, res)
            /\ batch' = [batch EXCEPT !.i = @ + 1,
                                      !.sns = Append(@, res.sn),
                                      !.stats = Count(@, email, res)]
    /\ UNCHANGED <<now, request, enrich, ingest, threads, alter>>

\* upsert_batch returns (sns, stats).
UpsertBatchReturn ==
    /\ batch.phase = "running"
    /\ batch.i = Len(batch.records)
    /\ batch' = [batch EXCEPT !.phase = "returned"]
    /\ UNCHANGED <<truth, columns, column_cache, seq, now, last, insert_log, request, enrich, ingest, threads, alter>>

Next ==
    \/ Tick
    \/ \E record \in Records : UpsertRecord(record)
    \/ \E records \in BatchLists : UpsertBatchCall(records)
    \/ UpsertBatchStep
    \/ UpsertBatchReturn

Spec == Init /\ [][Next]_vars

\* upsert_batch alone, on lists that hold records whose write fails.
NextBatch ==
    \/ Tick
    \/ \E records \in FailingBatchLists : UpsertBatchCall(records)
    \/ UpsertBatchStep
    \/ UpsertBatchReturn

SpecBatch == Init /\ [][NextBatch]_vars

\* The names handed to ensure_apollo_columns: four provider columns and one
\* column of the base schema.
EnsureNames ==
    {"Apollo Person: Seniority", "Apollo Person: Email Status",
     "Apollo Company: Founded Year", "Apollo Company: Primary Domain", "Listed Company"}

\* A caller invokes ensure_apollo_columns(column_names).  The call is kept
\* with the columns for which it ran ALTER TABLE (those not in the cache
\* when it started) and with whether it repeats the call before it.
EnsureApolloColumns(column_names) ==
    /\ \E res \in {ensure_apollo_columns(Db, column_names)} :
         /\ truth' = res.truth
         /\ columns' = res.columns
         /\ column_cache' = res.column_cache
    /\ last' = [NoCall EXCEPT
                   !.rec = column_names,
                   !.action = "ensure_apollo_columns",
                   !.stmt = IF column_names \subseteq column_cache THEN "none"
                            ELSE "ALTER TABLE",
                   !.stmt_columns = column_names \ column_cache,
                   !.rel = IF last.action = "ensure_apollo_columns" /\ last.rec = column_names
                           THEN "same" ELSE "other",
                   !.prev = last.action]
    /\ UNCHANGED <<seq, now, insert_log, batch, request, enrich, ingest, threads, alter>>

NextColumns == \E column_names \in SUBSET EnsureNames : EnsureApolloColumns(column_names)

SpecColumns == Init /\ [][NextColumns]_vars

\* The names of the step-by-step calls, and the lists made of them.
AlterNames ==
    {"Apollo Person: Seniority", "Apollo Person: Email Status", "Apollo Company: Founded Year"}

AlterLists ==
    {<<>>} \cup {<<a>> : a \in AlterNames}
           \cup {ab \in AlterNames \X AlterNames : ab[1] # ab[2]}

\* The store of either backend, before any call.
InitAlter ==
    /\ truth = {}
    /\ columns = BASE_COLUMNS
    /\ column_cache = BASE_COLUMNS
    /\ seq = 0
    /\ now = 1
    /\ last = NoCall
    /\ insert_log = <<>>
    /\ batch = NoBatch
    /\ request = NoRequest
    /\ enrich = NoEnrich
    /\ ingest = NoIngest
    /\ threads = NoThreads
    /\ alter \in {[NoAlter EXCEPT !.backend = b] : b \in Backends}

\* ensure_apollo_columns up to the first statement: new_columns is the list
\* of the names the cache lacks, and the cursor is opened when it is not empty.
EnsureBegin(column_names) ==
    /\ alter.pc = "idle"
    /\ \E new_columns \in {SelectSeq(column_names, LAMBDA col : col \notin column_cache)} :
          alter' = [alter EXCEPT !.pc = IF new_columns = <<>> THEN "idle" ELSE "open",
                                 !.todo = new_columns,
                                 !.pending = {},
                                 !.aborted = FALSE,
                                 !.raised = FALSE]
    /\ UNCHANGED <<truth, columns, column_cache, seq, now, last, insert_log, batch, request,
                   enrich, ingest, threads>>

\* The call ends with an exception: get_cursor rolls back and raises again.
\* SQLite runs ALTER TABLE outside any transaction, so nothing is undone;
\* PostgreSQL undoes every addition of the open transaction.
RolledBack == [alter EXCEPT !.pc = "idle", !.todo = <<>>, !.pending = {},
                            !.aborted = FALSE, !.raised = TRUE]

\* One turn of the loop: ALTER TABLE ADD COLUMN for the next name.  works is
\* whether the store can run the statement at all (no lock wait that times
\* out, no lost connection).
AlterColumn(works) ==
    /\ alter.pc = "open" /\ alter.todo # <<>>
    /\ \E col \in {Head(alter.todo)} :
          IF alter.aborted \/ ~ works
          THEN \* an error other than "duplicate column" / 42701: raised
               /\ alter' = RolledBack
               /\ UNCHANGED <<truth, columns, column_cache>>
          ELSE IF col \in columns \cup alter.pending
          THEN \* duplicate column: swallowed, the name is not cached; the
               \* PostgreSQL transaction is failed from here on
               /\ alter' = [alter EXCEPT !.todo = Tail(@),
                                         !.aborted = (alter.backend = "postgres")]
               /\ UNCHANGED <<truth, columns, column_cache>>
          ELSE /\ column_cache' = column_cache \cup {col}
               /\ IF alter.backend = "sqlite"
                  THEN /\ columns' = columns \cup {col}
                       /\ truth' = {row @@ [c \in {col} |-> None] : row \in truth}
                       /\ alter' = [alter EXCEPT !.todo = Tail(@)]
                  ELSE /\ alter' = [alter EXCEPT !.todo = Tail(@), !.pending = @ \cup {col}]
                       /\ UNCHANGED <<truth, columns>>
    /\ UNCHANGED <<seq, now, last, insert_log, batch, request, enrich, ingest, threads>>

\* The loop is over: get_cursor commits.  COMMIT of a failed PostgreSQL
\* transaction is a rollback, and the driver reports no error.
EnsureEnd ==
    /\ alter.pc = "open" /\ alter.todo = <<>>
    /\ \E added \in {IF alter.aborted THEN {} ELSE alter.pending} :
          /\ columns' = columns \cup added
          /\ truth' = {row @@ [c \in added \ columns |-> None] : row \in truth}
    /\ alter' = [alter EXCEPT !.pc = "idle", !.pending = {}, !.aborted = FALSE]
    /\ UNCHANGED <<column_cache, seq, now, last, insert_log, batch, request, enrich, ingest,
                   threads>>

\* Another DatabaseManager on the same store adds a column; this one's cache
\* is loaded at construction only.  The table is not locked by a transaction
\* of this manager.
OtherManagerAdds(col) ==
    /\ alter.pending = {} /\ ~ alter.aborted
    /\ col \notin columns
    /\ columns' = columns \cup {col}
    /\ truth' = {row @@ [c \in {col} |-> None] : row \in truth}
    /\ UNCHANGED <<column_cache, seq, now, last, insert_log, batch, request, enrich, ingest,
                   threads, alter>>

NextAlter ==
    \/ \E column_names \in AlterLists : EnsureBegin(column_names)
    \/ \E works \in BOOLEAN : AlterColumn(works)
    \/ EnsureEnd
    \/ \E col \in AlterNames : OtherManagerAdds(col)

SpecAlter == InitAlter /\ [][NextAlter]_vars

(***************************************************************************)
(* Two callers in upsert_record at the same time.  get_existing_record and *)
(* the write statement run in one transaction each, so a call of the other *)
(* caller can come between them.                                           *)
(***************************************************************************)
\* The records the two callers bring: all under one natural key, with no
\* other field, a first name, a last name, or a provider field.
RaceRecords ==
    { MakeRecord(KeyA, Absent, Absent, Absent, Absent, Absent, 0, Absent),
      MakeRecord(KeyA, "Jane", Absent, Absent, Absent, Absent, 0, Absent),
      MakeRecord(KeyA, Absent, "Doe", Absent, Absent, Absent, 0, Absent),
      MakeRecord(KeyA, Absent, Absent, Absent, "verified", Absent, 0, Absent) }

Other(p) == CHOOSE q \in Callers : q # p

\* upsert_record up to the return of get_existing_record.
UpsertLookup(p, record) ==
    /\ threads[p].pc # "looked"
    /\ threads' =
          [q \in Callers |->
              IF q = p
              THEN [NoThread EXCEPT !.pc = "looked", !.rec = record,
                                    !.found = get_existing_record(Db, record[EMAIL]),
                                    !.raced = threads[Other(p)].pc = "looked"]
              ELSE [threads[q] EXCEPT !.raced = @ \/ threads[q].pc = "looked"]]
    /\ UNCHANGED <<truth, columns, column_cache, seq, now, last, insert_log, batch, request,
                   enrich, ingest, alter>>

\* upsert_record from there to its return: the merge into the row the lookup
\* gave, and the INSERT or UPDATE on the table as it is now.
UpsertWrite(p) ==
    /\ threads[p].pc = "looked"
    /\ \E res \in {upsert_record_found(Db, threads[p].rec, now, threads[p].found)} :
          /\ truth' = res.db.truth
          /\ columns' = res.db.columns
          /\ column_cache' = res.db.column_cache
          /\ seq' = res.db.seq
          /\ threads' =
                [threads EXCEPT
                    ![p].pc = "done", ![p].action = res.action,
                    ![p].filled =
                        IF res.action # "update" THEN {}
                        ELSE UNION {Filled(existing, threads[p].rec) :
                                        existing \in threads[p].found}]
    /\ UNCHANGED <<now, last, insert_log, batch, request, enrich, ingest, alter>>

NextRace ==
    \/ \E p \in Callers, record \in RaceRecords : UpsertLookup(p, record)
    \/ \E p \in Callers : UpsertWrite(p)

SpecRace == Init /\ [][NextRace]_vars

\* The variables of the store.
store == <<truth, columns, column_cache, seq, now, last, insert_log, batch>>

\* A caller invokes _make_request under settings cfg.
MakeRequestCall(cfg) ==
    /\ request.phase # "running"
    /\ request' = StartRequest(cfg)
    /\ UNCHANGED <<store, enrich, ingest, threads, alter>>

\* session.post returns or raises, and the loop handles it.
MakeRequestAttempt(outcome) ==
    /\ request.phase = "running"
    /\ request' = Attempt(request, outcome)
    /\ UNCHANGED <<store, enrich, ingest, threads, alter>>

NextRequest ==
    \/ \E cfg \in Configs : MakeRequestCall(cfg)
    \/ \E outcome \in PostOutcomes : MakeRequestAttempt(outcome)

SpecRequest == Init /\ [][NextRequest]_vars

\* The groups of the call in progress.
Groups == chunk_list(enrich.records, GroupSize(enrich.batch_size))

\* A caller invokes enrich_people_bulk or enrich_organizations_bulk. A call
\* keeps nothing of the calls before it (all_results is a local), so one call
\* from the initial state stands for every call.
EnrichCall(input) ==
    /\ enrich.phase = "idle"
    /\ enrich' = [NoEnrich EXCEPT !.phase = "running", !.endpoint = input.endpoint,
                                  !.records = input.records, !.batch_size = input.batch_size]
    /\ UNCHANGED <<store, request, ingest, threads, alter>>

\* One round of the loop over the groups, the provider behaving as given.
EnrichGroup(behaviour) ==
    /\ enrich.phase = "running"
    /\ enrich.i < Len(Groups)
    /\ LET group == Groups[enrich.i + 1]
       IN \E res \in {IF enrich.endpoint = "people"
                      THEN PeopleGroup(DefaultConfig, group, behaviour)
                      ELSE OrgGroup(DefaultConfig, group, behaviour)} :
            enrich' = [enrich EXCEPT
                          !.i = @ + 1,
                          !.all_results = @ \o res.results,
                          !.sent = @ \o [k \in 1..Len(res.sent) |->
                                            res.sent[k] @@ [group |-> enrich.i + 1]]]
    /\ UNCHANGED <<store, request, ingest, threads, alter>>

\* The call returns all_results.
EnrichReturn ==
    /\ enrich.phase = "running"
    /\ enrich.i = Len(Groups)
    /\ enrich' = [enrich EXCEPT !.phase = "returned"]
    /\ UNCHANGED <<store, request, ingest, threads, alter>>

NextEnrich ==
    \/ \E input \in EnrichInputs : EnrichCall(input)
    \/ \E behaviour \in Behaviours : EnrichGroup(behaviour)
    \/ EnrichReturn

SpecEnrich == Init /\ [][NextEnrich]_vars

(***************************************************************************)
(* ExcelIngestor (src/ingest.py).  A DataFrame is its columns, its index   *)
(* labels and one dict per row over the columns; a blank cell is NaN.      *)
(* Labels and positions count from 1 where pandas counts from 0.           *)
(***************************************************************************)
LEAD_SOURCE == "Lead Source"
MAX_FILE_SIZE_MB == 50
EMAIL_MAX_LENGTH == 254

Frame(cols, index, data) == [columns |-> cols, index |-> index, data |-> data]

\* pd.isna(val)
IsNa(val) == val = None \/ val = NaN

\* pd.DataFrame(records): the columns are the keys of the records, a key
\* that a record lacks is a blank cell, the index is a RangeIndex.
DataFrame(records) ==
    LET cols == UNION {DOMAIN records[i] : i \in 1..Len(records)}
    IN Frame(cols, [i \in 1..Len(records) |-> i],
             [i \in 1..Len(records) |->
                 [c \in cols |-> IF c \in DOMAIN records[i] THEN records[i][c] ELSE NaN]])

\* The members of a set of positions in increasing order.
RECURSIVE Ascending(_)
Ascending(S) ==
    IF S = {} THEN <<>>
    ELSE LET m == CHOOSE x \in S : \A y \in S : x <= y
         IN <<m>> \o Ascending(S \ {m})

\* df[mask]: the rows at the positions kept; they keep their index labels.
Take(df, kept) ==
    LET order == Ascending(kept)
    IN Frame(df.columns, [k \in 1..Len(order) |-> df.index[order[k]]],
             [k \in 1..Len(order) |-> df.data[order[k]]])

\* config.COLUMN_MAPPINGS, the aliases of three of its canonical columns.
COLUMN_MAPPINGS ==
    (EMAIL :> {"email", "email address", "e-mail", "mail"})
    @@ (FIRST :> {"first name", "firstname", "given name"})
    @@ (WEBSITE :> {"website", "domain", "url"})

\* The name _detect_and_map_columns gives a column of the sheet.
Standard(col) ==
    LET col_lower == Lower(Strip(col))
        hits == {standard_col \in DOMAIN COLUMN_MAPPINGS :
                    col_lower \in COLUMN_MAPPINGS[standard_col]
                    \/ col_lower = Lower(standard_col)}
    IN IF hits = {} THEN col ELSE CHOOSE standard_col \in hits : TRUE

\* df.rename(columns=column_map); the sheets read have no two columns that
\* map to one name.
_detect_and_map_columns(df) ==
    LET cols == {Standard(col) : col \in df.columns}
    IN Frame(cols, df.index,
             [i \in 1..Len(df.data) |->
                 [c \in cols |-> df.data[i][CHOOSE col \in df.columns : Standard(col) = c]]])

\* parse_excel on a file of size_mb megabytes that openpyxl can or cannot
\* open and whose first sheet holds the table df, under config.MAX_ROWS =
\* max_rows: the exception raised ("" if none) and the frame returned.
parse_excel(file, max_rows) ==
    IF file.size_mb > MAX_FILE_SIZE_MB
    THEN [raised |-> "File too large", df |-> DataFrame(<<>>)]
    ELSE IF ~ file.workbook
    THEN [raised |-> "File is not a zip file", df |-> DataFrame(<<>>)]
    ELSE IF max_rows > 0 /\ Len(file.df.data) > max_rows
    THEN [raised |-> "File has too many rows", df |-> DataFrame(<<>>)]
    ELSE [raised |-> "", df |-> _detect_and_map_columns(file.df)]

\* Every character of s occurs in chars.
RECURSIVE AllIn(_, _)
AllIn(s, chars) ==
    \/ s = ""
    \/ /\ \E k \in 1..Len(chars) : SubSeq(chars, k, k) = SubSeq(s, 1, 1)
       /\ AllIn(SubSeq(s, 2, Len(s)), chars)

\* re.match(r'^[a-zA-Z0-9._%+-]+@[a-zA-Z0-9.-]+\.[a-zA-Z]{2,}$', email.strip())
validate_email(email) ==
    /\ ~ IsNa(email)
    /\ Strip(email) # ""
    /\ LET s == Strip(email)
           letters == LowerCase \o UpperCase
           digits == "0123456789"
       IN /\ Len(s) <= EMAIL_MAX_LENGTH
          /\ \E at \in 2..Len(s) : \E dot \in (at + 2)..(Len(s) - 2) :
                /\ SubSeq(s, at, at) = "@"
                /\ SubSeq(s, dot, dot) = "."
                /\ AllIn(SubSeq(s, 1, at - 1), letters \o digits \o "._%+-")
                /\ AllIn(SubSeq(s, at + 1, dot - 1), letters \o digits \o ".-")
                /\ AllIn(SubSeq(s, dot + 1, Len(s)), letters)

\* keep_row_email of normalize_dataframe
keep_row_email(val) == ~ IsNa(val) /\ Strip(val) # "" /\ validate_email(Strip(val))

\* df["Lead Source"] = lead_source if lead_source is not None else "Excel Upload"
LeadSourceOf(df, row, lead_source) ==
    IF lead_source # None THEN lead_source ELSE "Excel Upload"

\* df["Email Send (Yes/No)"] = df.get("Email Send (Yes/No)", "No")
EmailSendOf(df, row) ==
    IF EMAIL_SEND_COLUMN \in df.columns THEN row[EMAIL_SEND_COLUMN] ELSE "No"

\* normalize_dataframe(df, lead_source); the frames normalized have no
\* "Unnamed: n" column and no company or job-title column.
normalize_dataframe(df, lead_source) ==
    LET text_columns == {FIRST, LAST, EMAIL}
        Clean(c, x) ==
            IF c = WEBSITE THEN (IF IsNa(x) THEN None ELSE extract_domain(x))
            ELSE IF c \in text_columns THEN (IF IsNa(x) THEN None ELSE Strip(x))
            ELSE x
        Fill(x) == IF IsNa(x) THEN "" ELSE x
        \* dropna(how="all")
        NotEmpty(d) ==
            Take(d, {i \in 1..Len(d.data) : \E c \in d.columns : ~ IsNa(d.data[i][c])})
        \* the Website and text columns
        Stripped(d) ==
            Frame(d.columns, d.index,
                  [i \in 1..Len(d.data) |-> [c \in d.columns |-> Clean(c, d.data[i][c])]])
        \* df[df[email_col].apply(keep_row_email)]
        Valid(d) ==
            IF EMAIL \in d.columns
            THEN Take(d, {i \in 1..Len(d.data) : keep_row_email(d.data[i][EMAIL])})
            ELSE d
        \* the default columns and fillna("")
        Defaults(d) ==
            Frame(d.columns \cup {LEAD_SOURCE, EMAIL_SEND_COLUMN}, d.index,
                  [i \in 1..Len(d.data) |->
                      [c \in d.columns \cup {LEAD_SOURCE, EMAIL_SEND_COLUMN} |->
                          Fill(IF c = LEAD_SOURCE
                               THEN LeadSourceOf(d, d.data[i], lead_source)
                               ELSE IF c = EMAIL_SEND_COLUMN THEN EmailSendOf(d, d.data[i])
                               ELSE d.data[i][c])]])
    IN Defaults(Valid(Stripped(NotEmpty(df))))

\* Mutant: the last row of each key is kept.
FirstOfKey_last(df, key_cols, i) ==
    \A j \in (i + 1)..Len(df.data) : \E c \in key_cols : df.data[j][c] # df.data[i][c]

\* keep="first": no earlier row has the values of row i in the key columns.
FirstOfKey(df, key_cols, i) ==
    \A j \in 1..(i - 1) : \E c \in key_cols : df.data[j][c] # df.data[i][c]

\* df.drop_duplicates(subset=key_cols, keep="first")
drop_duplicates(df, key_cols) ==
    Take(df, {i \in 1..Len(df.data) : FirstOfKey(df, key_cols, i)})

deduplicate_by_email(df) ==
    IF EMAIL \notin df.columns THEN df ELSE drop_duplicates(df, {EMAIL})

deduplicate_by_name_and_company(df) ==
    IF ~ ({FIRST, LAST, COMPANY} \subseteq df.columns) THEN df
    ELSE drop_duplicates(df, {FIRST, LAST, COMPANY})

\* enrich_people_bulk / enrich_organizations_bulk on the groups of a list,
\* the provider behaving as given: all_results and the requests made.
RECURSIVE BulkLoop(_, _, _)
BulkLoop(endpoint, groups, behaviour) ==
    IF groups = <<>> THEN [results |-> <<>>, sent |-> <<>>]
    ELSE LET res == IF endpoint = "people"
                    THEN PeopleGroup(DefaultConfig, Head(groups), behaviour)
                    ELSE OrgGroup(DefaultConfig, Head(groups), behaviour)
             rest == BulkLoop(endpoint, Tail(groups), behaviour)
         IN [results |-> res.results \o rest.results, sent |-> res.sent \o rest.sent]

enrich_people_bulk(records, behaviour) ==
    BulkLoop("people", chunk_list(records, GroupSize(0)), behaviour)

enrich_organizations_bulk(records, behaviour) ==
    BulkLoop("organizations", chunk_list(records, GroupSize(0)), behaviour)

\* df.loc[mask, col] with a mask indexed like enriched_df: every label of df
\* has to be a label of the mask, or pandas raises IndexingError.
Aligned(df, enriched_df) ==
    \A k \in 1..Len(df.index) :
        \E p \in 1..Len(enriched_df.index) : enriched_df.index[p] = df.index[k]

\* _merge_enriched_data(df, enriched_records): the exception raised ("" if
\* none) and the frame returned.
_merge_enriched_data(df, enriched_records) ==
    LET enriched_df == DataFrame(enriched_records)
        cols == df.columns \cup enriched_df.columns
        Merge(k, c) ==
            LET at == {p \in 1..Len(enriched_df.index) : enriched_df.index[p] = df.index[k]}
                new == IF c \in enriched_df.columns /\ at # {}
                       THEN enriched_df.data[CHOOSE p \in at : TRUE][c] ELSE NaN
                old == IF c \in df.columns THEN df.data[k][c] ELSE ""
            IN IF ~ IsNa(new) /\ new # "" THEN new ELSE old
    IN IF enriched_df.columns # {} /\ ~ Aligned(df, enriched_df)
       THEN [raised |-> "Unalignable boolean Series provided as indexer", df |-> df]
       ELSE [raised |-> "",
             df |-> Frame(cols, df.index,
                          [k \in 1..Len(df.data) |-> [c \in cols |-> Merge(k, c)]])]

\* has_people_identifier(rec) of enrich_records
has_people_identifier(rec) ==
    \/ HasText(rec, EMAIL)
    \/ HasText(rec, FIRST) /\ HasText(rec, LAST)
    \/ HasText(rec, COMPANY)
    \/ HasText(rec, WEBSITE)

\* The number of records without the error marker.
Unmarked(records) ==
    Cardinality({i \in 1..Len(records) : ERROR_MARKER \notin DOMAIN records[i]})

\* enriched_people_full of enrich_records: the rows at the positions of
\* subset were sent and came back as enriched_subset, every other row gets
\* the skip marker.
EnrichedPeopleFull(df, subset, enriched_subset) ==
    LET order == Ascending(subset)
    IN [i \in 1..Len(df.data) |->
           IF i \in subset THEN enriched_subset[CHOOSE j \in 1..Len(order) : order[j] = i]
           ELSE Update(df.data[i], ERROR_MARKER :> "Skipped (no identifier for matching)")]

\* upsert_batch(records) on database db at clock second t: the database
\* afterwards, the identifiers and the statistics.
RECURSIVE BatchLoop(_, _, _, _)
BatchLoop(db, records, t, done) ==
    IF records = <<>> THEN [db |-> db, sns |-> done.sns, stats |-> done.stats]
    ELSE LET record == Head(records)
             email == IF Falsy(Get(record, EMAIL)) THEN "" ELSE record[EMAIL]
             res == upsert_record(db, record, t)
         IN BatchLoop(res.db, Tail(records), t,
                      [sns |-> Append(done.sns, res.sn),
                       stats |-> Count(done.stats, email, res)])

upsert_batch(db, records, t) == BatchLoop(db, records, t, [sns |-> <<>>, stats |-> NoStats])

\* Mutant: the internal fields are handed on like any other.
Cleaned_unstripped(record) ==
    [key \in DOMAIN record |->
        IF IsNa(record[key]) \/ record[key] = "" THEN "" ELSE record[key]]

\* The dict save_to_database builds from a row: no key that starts with "_",
\* every NaN, None or "" as "", every other value as a string.
Cleaned(record) ==
    [key \in {k \in DOMAIN record : ~ StartsWith(k, "_")} |->
        IF IsNa(record[key]) \/ record[key] = "" THEN "" ELSE record[key]]

\* Mutant: a record without email is handed on like any other.
HasEmail_any(cleaned) == TRUE

\* not (not cleaned.get("Email ID (unique)"))
HasEmail(cleaned) == ~ Falsy(Get(cleaned, EMAIL))

\* save_to_database(df) on database db at clock second t: the database
\* afterwards, the statistics and the list handed to upsert_batch.
save_to_database(db, df, t) ==
    LET cleaned == [i \in 1..Len(df.data) |-> Cleaned(df.data[i])]
        kept == Ascending({i \in 1..Len(cleaned) : HasEmail(cleaned[i])})
        cleaned_records == [k \in 1..Len(kept) |-> cleaned[kept[k]]]
        res == upsert_batch(db, cleaned_records, t)
    IN [db |-> res.db, sns |-> res.sns, cleaned_records |-> cleaned_records,
        stats |-> res.stats @@ [skipped_no_email |-> Len(cleaned) - Len(cleaned_records)]]

\* mask_pii of an address: user@example.com -> u***@e***.com
mask_pii(text) ==
    IF Falsy(text) \/ ~ validate_email(text) THEN text
    ELSE LET at == CHOOSE k \in 1..Len(text) : SubSeq(text, k, k) = "@"
         IN SubSeq(text, 1, 1) \o "***@" \o SubSeq(text, at + 1, at + 1) \o "***.com"

\* results as process_file initialises it
NewResults ==
    [total_processed |-> 0, new_inserts |-> 0, updates |-> 0, failed |-> 0,
     errors |-> <<>>, people_enriched |-> 0, orgs_enriched |-> 0, warnings |-> <<>>,
     empty_reason |-> None, org_enrichment_skipped_no_domain |-> 0]

\* Mutant: the handler returns the result without the flag.
Failure_unflagged(results, message) ==
    [results EXCEPT !.errors = Append(@, [email |-> "N/A",
                                          message |-> "Processing failed: " \o message])]

\* The except clause of process_file.
Failure(results, message) ==
    [results EXCEPT !.errors = Append(@, [email |-> "N/A",
                                          message |-> "Processing failed: " \o message]),
                    !.failed = IF results.total_processed > 0
                               THEN results.total_processed ELSE @]
    @@ [processing_failed |-> TRUE]

\* The error entries collected from the rows that carry the marker.
Collected(df) ==
    LET marked == Ascending({i \in 1..Len(df.data) :
                                ERROR_MARKER \in df.columns
                                /\ ~ Falsy(df.data[i][ERROR_MARKER])})
    IN [k \in 1..Len(marked) |->
           [email |-> mask_pii(Get(df.data[marked[k]], EMAIL)),
            message |-> df.data[marked[k]][ERROR_MARKER]]]

(***************************************************************************)
(* Inputs of ExcelIngestor                                                 *)
(***************************************************************************)
MaxRows == 3
MaxFrame == 3

\* The frame of the given columns whose rows are the given dicts.
Table(cols, rows) ==
    Frame(cols, [i \in 1..Len(rows) |-> i],
          [i \in 1..Len(rows) |-> [c \in cols |-> rows[i][c]]])

\* Row i of a sheet: a lead with an address and a website, one without a
\* website, one with the address of lead 1, one with a text that is no
\* address, and a blank row.
SheetRow(i, kind) ==
    LET blank == kind = "blank"
        email == IF kind \in {"lead", "no_site"} THEN " lead" \o Digits[i] \o "@x.com "
                 ELSE IF kind = "repeat" THEN "lead1@x.com"
                 ELSE IF kind = "invalid" THEN "no-at-sign" ELSE NaN
        site == IF kind \in {"no_site", "blank"} THEN NaN
                ELSE "https://www.Site" \o Digits[i] \o ".com/about"
    IN ("Email" :> email) @@ ("E-mail" :> email)
       @@ ("First Name" :> IF blank THEN NaN ELSE "Lead " \o Digits[i])
       @@ ("Website" :> site)
       @@ ("Notes" :> IF blank THEN NaN ELSE "n")

\* The kinds of rows the sheets of each layout are made of.
RowKinds ==
    [keyed |-> {"lead", "no_site", "repeat", "invalid"},
     unkeyed |-> {"lead", "no_site", "blank"},
     notes |-> {"lead", "repeat", "blank"}]

\* The headers of a sheet: with an address column, without one, and with a
\* column that no alias matches.
Headers ==
    [keyed |-> {"Email", "First Name", "Website"},
     unkeyed |-> {"First Name", "Website"},
     notes |-> {"E-mail", "First Name", "Website", "Notes"}]

Sheets(layout) ==
    UNION {{Table(Headers[layout], [i \in 1..n |-> SheetRow(i, kinds[i])]) :
               kinds \in [1..n -> RowKinds[layout]]} : n \in 0..MaxRows}

\* A file of one megabyte that holds the sheet.
Workbook(sheet) == [size_mb |-> 1, workbook |-> TRUE, df |-> sheet]

\* How process_file is called: the client of the ingestor ("client" or
\* None) and the two flags.
Option(client, enrich_people, enrich_companies) ==
    [client |-> client, enrich_people |-> enrich_people,
     enrich_companies |-> enrich_companies]

Enriching == Option("client", TRUE, TRUE)

Options ==
    {Enriching, Option(None, TRUE, TRUE), Option("client", TRUE, FALSE),
     Option("client", FALSE, TRUE), Option("client", FALSE, FALSE)}

\* The calls of process_file: the file, config.MAX_ROWS and the options.
Call(file, max_rows, option) == [file |-> file, max_rows |-> max_rows] @@ option

ProcessFileCalls ==
    {Call(Workbook(sheet), 0, option) : sheet \in Sheets("keyed"), option \in Options}
    \cup {Call(Workbook(sheet), 0, Option(None, TRUE, TRUE)) : sheet \in Sheets("notes")}
    \cup {Call(Workbook(sheet), 0, Enriching) : sheet \in Sheets("unkeyed")}
    \cup {Call(Workbook(sheet), 2, Enriching) : sheet \in Sheets("keyed")}
    \cup {Call([size_mb |-> MAX_FILE_SIZE_MB + 1, workbook |-> TRUE, df |-> sheet],
               0, Enriching) : sheet \in Sheets("keyed")}
    \cup {Call([size_mb |-> 1, workbook |-> FALSE, df |-> sheet], 0, Enriching) :
             sheet \in Sheets("keyed")}

\* How the provider behaves during one lookup of process_file.
IngestBehaviours == {"full", "down"}

\* The frames handed to the methods called on their own: the tables of at
\* most MaxFrame rows over the given columns and rows.
Frames(cols, rows) ==
    UNION {{Table(cols, data) : data \in [1..n -> rows]} : n \in 0..MaxFrame}

\* For deduplication: two emails or two companies, two first names and one
\* last name.  The frames of the first kind have no company column, those of
\* the second no email column.
DedupFrames ==
    Frames({EMAIL, FIRST, LAST},
           {r \in [{EMAIL, FIRST, LAST} -> {KeyA, KeyC, "Jane", "Joan", "Doe"}] :
               r[EMAIL] \in {KeyA, KeyC} /\ r[FIRST] \in {"Jane", "Joan"} /\ r[LAST] = "Doe"})
    \cup Frames({FIRST, LAST, COMPANY},
                {r \in [{FIRST, LAST, COMPANY} -> {"Jane", "Joan", "Doe", "Acme", ""}] :
                    r[FIRST] \in {"Jane", "Joan"} /\ r[LAST] = "Doe"
                    /\ r[COMPANY] \in {"Acme", ""}})

\* For normalization: frames with only an email column, and frames with a
\* lead-source and a consent column whose cells are filled or blank; the
\* email is valid or not.
NormalizeFrames ==
    Frames({EMAIL}, [{EMAIL} -> {KeyA, "no-at-sign"}])
    \cup Frames({EMAIL, LEAD_SOURCE, EMAIL_SEND_COLUMN},
                {r \in [{EMAIL, LEAD_SOURCE, EMAIL_SEND_COLUMN} ->
                           {KeyA, "no-at-sign", "Conference", "Yes", NaN}] :
                    /\ r[EMAIL] \in {KeyA, "no-at-sign"}
                    /\ r[LEAD_SOURCE] \in {"Conference", NaN}
                    /\ r[EMAIL_SEND_COLUMN] \in {"Yes", NaN}
                    /\ r[EMAIL] = "no-at-sign" =>
                          r[LEAD_SOURCE] = NaN /\ r[EMAIL_SEND_COLUMN] = NaN})

\* For save_to_database: rows with an email and with "", NaN or None in
\* its place, frames without the email column, and rows that carry the
\* error marker.
SaveFrames ==
    Frames({FIRST}, [{FIRST} -> {"Jane"}])
    \cup Frames({EMAIL, FIRST},
                {r \in [{EMAIL, FIRST} -> {KeyA, KeyC, "", NaN, None, "Jane"}] :
                    r[EMAIL] # "Jane" /\ r[FIRST] = "Jane"})
    \cup Frames({EMAIL, FIRST, ERROR_MARKER},
                {r \in [{EMAIL, FIRST, ERROR_MARKER} -> {KeyA, KeyC, "", NaN, "Jane", "down"}] :
                    /\ r[EMAIL] \in {KeyA, KeyC, "", NaN} /\ r[FIRST] = "Jane"
                    /\ r[ERROR_MARKER] \in {"down", NaN}
                    /\ r[ERROR_MARKER] = "down" => r[EMAIL] = KeyA})

(***************************************************************************)
(* ExcelIngestor: the state machine                                        *)
(***************************************************************************)
\* The TEXT columns of BASE_COLUMNS that the pipeline writes besides the
\* ones above.
PIPELINE_COLUMNS == {WEBSITE, COMPANY, LISTED, LEAD_SOURCE}

\* The state after DatabaseManager() and ExcelIngestor(db, client).
InitIngest ==
    /\ truth = {}
    /\ columns = BASE_COLUMNS \cup PIPELINE_COLUMNS
    /\ column_cache = BASE_COLUMNS \cup PIPELINE_COLUMNS
    /\ seq = 0
    /\ now = 1
    /\ last = NoCall
    /\ insert_log = <<>>
    /\ batch = NoBatch
    /\ request = NoRequest
    /\ enrich = NoEnrich
    /\ ingest = NoIngest
    /\ threads = NoThreads
    /\ alter = NoAlter

\* The state change of the upsert_batch call that save_to_database makes.
Save(res) ==
    /\ truth' = res.db.truth
    /\ columns' = res.db.columns
    /\ column_cache' = res.db.column_cache
    /\ seq' = res.db.seq
    /\ insert_log' = insert_log \o res.stats.inserted_emails
    /\ batch' = [phase |-> "returned", records |-> res.cleaned_records,
                 i |-> Len(res.cleaned_records), sns |-> res.sns,
                 stats |-> [key \in DOMAIN NoStats |-> res.stats[key]], again |-> FALSE]
    /\ UNCHANGED <<now, last, request, enrich, threads, alter>>

\* process_file returns results from the given stage.
Return(run, stage, results) ==
    [run EXCEPT !.at = "returned", !.stage = stage, !.results = results]

\* Mutant: a frame without rows is reported like an exception.
NoValidRows_as_failure(results) == Failure(results, "No valid records to process")

\* results["empty_reason"] = "no_valid_rows"
NoValidRows(results) == [results EXCEPT !.empty_reason = "no_valid_rows"]

\* Mutant: the frame is taken to have the email column.
HasEmailColumn_any(df) == TRUE

\* "Email ID (unique)" in df.columns
HasEmailColumn(df) == EMAIL \in df.columns

\* process_file from its start to the return of deduplicate_by_email: it
\* returns from one of its checks or goes on to enrich_records (whose lookups
\* run if the ingestor has a client) or to save_to_database.
Started(call, parsed, normal, unique) ==
    LET run == [op |-> "process_file", call |-> call, at |-> "save", stage |-> "",
                results |-> NewResults, frames |-> <<>>, df |-> unique, sent |-> <<>>,
                stats |-> [people |-> 0, orgs |-> 0, orgs_skipped_no_domain |-> 0],
                saved |-> FALSE]
        lookups == call.client # None
        empty == NoValidRows(NewResults)
    IN IF parsed.raised # ""
       THEN Return(run, "parse", Failure(NewResults, parsed.raised))
       ELSE IF Len(normal.data) = 0
       THEN Return([run EXCEPT !.frames = <<parsed.df, normal>>], "normalize", empty)
       ELSE IF ~ HasEmailColumn(normal)
       THEN Return([run EXCEPT !.frames = <<parsed.df, normal>>], "validate",
                   Failure(NewResults, "The Excel file must contain an email column"))
       ELSE IF Len(unique.data) = 0
       THEN Return([run EXCEPT !.frames = <<parsed.df, normal, unique>>],
                   "deduplicate", empty)
       ELSE [run EXCEPT
                !.frames = <<parsed.df, normal, unique>>,
                !.results = [NewResults EXCEPT !.total_processed = Len(unique.data)],
                !.stats.orgs_skipped_no_domain =
                    IF lookups /\ (call.enrich_people \/ call.enrich_companies)
                    THEN Cardinality({i \in 1..Len(unique.data) :
                                         ~ HasText(unique.data[i], WEBSITE)})
                    ELSE 0,
                !.at = IF lookups /\ call.enrich_people THEN "people"
                       ELSE IF lookups /\ call.enrich_companies THEN "companies"
                       ELSE "save"]

\* A caller invokes process_file.  The call keeps nothing of earlier calls
\* but the rows of the store, so one call on the empty store is followed.
ProcessFile(call) ==
    /\ ingest.op = "none"
    /\ \E parsed \in {parse_excel(call.file, call.max_rows)} :
         \E normal \in {normalize_dataframe(parsed.df, None)} :
           \E unique \in {deduplicate_by_email(normal)} :
             ingest' = Started(call, parsed, normal, unique)
    /\ UNCHANGED <<store, request, enrich, threads, alter>>

\* enrich_records returns and process_file takes the statistics over.
Enriched(run) ==
    [run EXCEPT !.at = "save",
                !.results = [@ EXCEPT
                                !.people_enriched = run.stats.people,
                                !.orgs_enriched = run.stats.orgs,
                                !.org_enrichment_skipped_no_domain =
                                    run.stats.orgs_skipped_no_domain]]

\* One lookup of enrich_records is over: `lookup` returned the records
\* `enriched` after the requests `sent`, and _merge_enriched_data gave
\* `merged`.  An exception of the merge ends process_file in its handler;
\* otherwise the next lookup follows, or enrich_records returns.
Looked(run, lookup, enriched, sent, merged) ==
    IF merged.raised # ""
    THEN Return([run EXCEPT !.sent = @ \o sent], "enrich",
                Failure(run.results, merged.raised))
    ELSE IF lookup = "people"
    THEN IF run.call.enrich_companies
         THEN [run EXCEPT !.df = merged.df, !.sent = @ \o sent,
                          !.stats.people = Unmarked(enriched), !.at = "companies"]
         ELSE Enriched([run EXCEPT !.df = merged.df, !.sent = @ \o sent,
                                   !.stats.people = Unmarked(enriched)])
    ELSE Enriched([run EXCEPT !.df = merged.df, !.sent = @ \o sent,
                              !.stats.orgs = Unmarked(enriched)])

\* The people half of enrich_records, the provider behaving as given.
ProcessFilePeople(behaviour) ==
    /\ ingest.op = "process_file" /\ ingest.at = "people"
    /\ \E subset \in {{i \in 1..Len(ingest.df.data) :
                         has_people_identifier(ingest.df.data[i])}} :
         \E people \in {IF subset # {}
                        THEN enrich_people_bulk(Take(ingest.df, subset).data, behaviour)
                        ELSE [results |-> <<>>, sent |-> <<>>]} :
           \E merged \in {_merge_enriched_data(
                             ingest.df, EnrichedPeopleFull(ingest.df, subset, people.results))} :
             ingest' = Looked(ingest, "people", people.results, people.sent, merged)
    /\ UNCHANGED <<store, request, enrich, threads, alter>>

\* The organization half of enrich_records: the lookup is made with the
\* records as they were before the people half.
ProcessFileCompanies(behaviour) ==
    /\ ingest.op = "process_file" /\ ingest.at = "companies"
    /\ \E orgs \in {enrich_organizations_bulk(ingest.frames[3].data, behaviour)} :
         \E merged \in {_merge_enriched_data(ingest.df, orgs.results)} :
           ingest' = Looked(ingest, "companies", orgs.results, orgs.sent, merged)
    /\ UNCHANGED <<store, request, enrich, threads, alter>>

\* Stage 5 of process_file, the errors it collects, and its return.
ProcessFileSave ==
    /\ ingest.op = "process_file" /\ ingest.at = "save"
    /\ \E res \in {save_to_database(Db, ingest.df, now)} :
         /\ ingest' =
               [Return(ingest, "complete",
                         [ingest.results EXCEPT !.new_inserts = res.stats.inserted,
                                                !.updates = res.stats.updated,
                                                !.failed = res.stats.failed,
                                                !.errors = Collected(ingest.df)]
                         @@ [inserted_emails |-> res.stats.inserted_emails,
                             updated_emails |-> res.stats.updated_emails,
                             failed_records |-> res.stats.failed_records,
                             skipped_no_email |-> res.stats.skipped_no_email])
                EXCEPT !.saved = TRUE]
         /\ Save(res)

NextIngest ==
    \/ \E call \in ProcessFileCalls : ProcessFile(call)
    \/ \E behaviour \in IngestBehaviours : ProcessFilePeople(behaviour)
    \/ \E behaviour \in IngestBehaviours : ProcessFileCompanies(behaviour)
    \/ ProcessFileSave

SpecIngest == InitIngest /\ [][NextIngest]_vars

\* A caller invokes normalize_dataframe(df, lead_source).
NormalizeDataframe(df, lead_source) ==
    /\ ingest.op = "none"
    /\ ingest' = [op |-> "normalize_dataframe", df |-> df, lead_source |-> lead_source,
                  out |-> normalize_dataframe(df, lead_source)]
    /\ UNCHANGED <<store, request, enrich, threads, alter>>

\* A caller invokes deduplicate_by_email on a frame, or on the frame the
\* call before returned.
DeduplicateByEmail(df) ==
    /\ \/ ingest.op = "none"
       \/ ingest.op = "deduplicate_by_email" /\ ~ ingest.again /\ df = ingest.out
    /\ ingest' = [op |-> "deduplicate_by_email", df |-> df, again |-> ingest.op # "none",
                  out |-> deduplicate_by_email(df)]
    /\ UNCHANGED <<store, request, enrich, threads, alter>>

DeduplicateByNameAndCompany(df) ==
    /\ \/ ingest.op = "none"
       \/ ingest.op = "deduplicate_by_name_and_company" /\ ~ ingest.again /\ df = ingest.out
    /\ ingest' = [op |-> "deduplicate_by_name_and_company", df |-> df,
                  again |-> ingest.op # "none",
                  out |-> deduplicate_by_name_and_company(df)]
    /\ UNCHANGED <<store, request, enrich, threads, alter>>

\* A caller invokes save_to_database(df).
SaveToDatabase(df) ==
    /\ ingest.op = "none"
    /\ \E res \in {save_to_database(Db, df, now)} :
         /\ ingest' = [op |-> "save_to_database", df |-> df, stats |-> res.stats]
         /\ Save(res)

NextFrame ==
    \/ /\ ingest.op = "none"
       /\ \/ \E df \in NormalizeFrames, lead_source \in {None, "Website Scrape"} :
                NormalizeDataframe(df, lead_source)
          \/ \E df \in DedupFrames : DeduplicateByEmail(df)
          \/ \E df \in DedupFrames : DeduplicateByNameAndCompany(df)
          \/ \E df \in SaveFrames : SaveToDatabase(df)
    \/ /\ ingest.op = "deduplicate_by_email"
       /\ DeduplicateByEmail(ingest.out)
    \/ /\ ingest.op = "deduplicate_by_name_and_company"
       /\ DeduplicateByNameAndCompany(ingest.out)

SpecFrame == InitIngest /\ [][NextFrame]_vars

(***************************************************************************)
(* Properties                                                              *)
(***************************************************************************)
Returned == {"insert", "update", "skip"}

\* The step is one call of upsert_record, made directly or by the loop of
\* upsert_batch: last' holds the call, the unprimed variables the state before it.
Called ==
    /\ now' = now
    /\ \/ batch.phase # "running" /\ batch' = NoBatch /\ last'.action # "none"
       \/ batch.phase = "running" /\ batch'.phase = "running" /\ batch'.i = batch.i + 1

\* The rows stored under a natural key.
RowsOf(rows, key) == {row \in rows : row[EMAIL] = key}

\* The natural key of the record of a call, as the store compares it.
KeyOf(record) == Bind(Get(record, EMAIL))

\* The fields of an incoming record, out of a set of keys, that are non-empty
\* where the stored row has no value.
Fillable(row, record, keys) ==
    {f \in keys : (f \notin DOMAIN row \/ _is_empty(row[f])) /\ _has_value(record[f])}

Identifiers(rows) == {row[SN] : row \in rows}

\* C1: once a field of a row, other than the last-updated timestamp, holds a
\* non-empty value, no step changes it (the identifier included).
C1_NonEmptyValueKept ==
    [][\A row \in truth : \E row2 \in truth' :
          /\ row2[SN] = row[SN]
          /\ \A col \in DOMAIN row \ {SN, timestamp_key} :
                _has_value(row[col]) => row2[col] = row[col]]_vars

\* An update went through although the record carried another non-empty value
\* for a field the row already had.
C1_Witness ==
    /\ last.action = "update"
    /\ \E row \in RowsOf(truth, KeyOf(last.rec)) :
         \E col \in DOMAIN last.rec \ {SN, timestamp_key, EMAIL} :
            _has_value(last.rec[col]) /\ _has_value(row[col]) /\ row[col] # last.rec[col]

\* C2: a record upserted again right after a call that returned yields skip
\* with the same identifier and leaves every row as it was, the timestamp
\* included; an upsert_batch repeated on the same list counts 0 inserted and
\* 0 updated.
C2_SameRecordTwice ==
    /\ [](last.rel = "same" /\ last.prev \in Returned => last.action = "skip")
    /\ [](batch.phase = "returned" /\ batch.again =>
             batch.stats.inserted = 0 /\ batch.stats.updated = 0)
    /\ [][Called /\ last'.rel = "same" /\ last'.prev \in Returned =>
             truth' = truth /\ columns' = columns /\ last'.sn = last.sn]_vars

\* insert, then, a second later, skip for the same record; the row still
\* carries the timestamp of the insert.
C2_Witness ==
    /\ last.rel = "same" /\ last.prev = "insert" /\ last.action = "skip"
    /\ now = 2
    /\ \A row \in RowsOf(truth, KeyOf(last.rec)) : row[timestamp_key] = Stamps[1]

C4_ProtectedColumnKept ==
    [][\A row \in truth : \E row2 \in truth' :
          row2[SN] = row[SN] /\ row2[EMAIL_SEND_COLUMN] = row[EMAIL_SEND_COLUMN]]_vars

\* An update by a record carrying "No" left the stored "Yes".
C4_Witness ==
    /\ last.action = "update"
    /\ EMAIL_SEND_COLUMN \in DOMAIN last.rec
    /\ last.rec[EMAIL_SEND_COLUMN] = "No"
    /\ \E row \in RowsOf(truth, KeyOf(last.rec)) : row[EMAIL_SEND_COLUMN] = "Yes"

\* C5: identifiers are unique; the identifier a call returns is that of the
\* row of the record's natural key; no step changes the identifier of a stored
\* key; an insert takes the next value of the store's sequence, whatever
\* identifier the record carries.
C5_IdentifierAssignedOnce ==
    /\ [](\A r1, r2 \in truth : r1[SN] = r2[SN] => r1 = r2)
    /\ [](last.action \in Returned =>
             \E row \in RowsOf(truth, KeyOf(last.rec)) : row[SN] = last.sn)
    /\ [][/\ \A row \in truth : \E row2 \in truth' :
                row2[EMAIL] = row[EMAIL] /\ row2[SN] = row[SN]
          /\ (Called /\ last'.action = "insert") =>
                /\ last'.sn = seq + 1
                /\ seq' = seq + 1
                /\ last'.sn \notin Identifiers(truth)]_vars

\* A record carrying an identifier was merged into the second row; the call
\* returned the row's own identifier.
C5_Witness ==
    /\ last.action \in {"update", "skip"}
    /\ SN \in DOMAIN last.rec
    /\ Cardinality(truth) = 2
    /\ last.sn = 2
    /\ last.rec[SN] # last.sn

\* C6: no two rows share a natural key; the stored keys are exactly the keys
\* for which an insert returned, one row each; a record whose key is stored
\* never reaches INSERT; the number of rows changes only by one insert of a
\* key that was not stored.
C6_OneRowPerKey ==
    /\ [](\A r1, r2 \in truth : r1[EMAIL] = r2[EMAIL] => r1 = r2)
    /\ []({row[EMAIL] : row \in truth} = {insert_log[i] : i \in DOMAIN insert_log})
    /\ [](Cardinality(truth) = Len(insert_log))
    /\ [](last.stmt = "INSERT" /\ last.action = "error" =>
             RowsOf(truth, KeyOf(last.rec)) = {})
    /\ [][Cardinality(truth') # Cardinality(truth) =>
             /\ Called /\ last'.action = "insert"
             /\ Cardinality(truth') = Cardinality(truth) + 1
             /\ RowsOf(truth, KeyOf(last'.rec)) = {}]_vars

\* A batch of two records with the same key returned: one insert, one row.
C6_Witness ==
    /\ batch.phase = "returned"
    /\ Len(batch.records) = 2
    /\ KeyOf(batch.records[1]) = KeyA /\ KeyOf(batch.records[2]) = KeyA
    /\ batch.stats.inserted = 1
    /\ batch.sns[1] = batch.sns[2]
    /\ Cardinality(RowsOf(truth, KeyA)) = 1

C8_SkipWritesNothing ==
    [][(/\ Called
        /\ \/ last'.action = "skip"
           \/ /\ last'.action # "error"
              /\ \E row \in RowsOf(truth, KeyOf(last'.rec)) :
                    Fillable(row, last'.rec,
                             DOMAIN last'.rec \ {SN, EMAIL_SEND_COLUMN, timestamp_key}) = {})
       => UNCHANGED <<truth, columns, column_cache, seq>>]_vars

\* A skip, a second after the insert, of a record that carries an extension
\* column the store does not have: the timestamp and the columns are as before.
C8_Witness ==
    /\ last.action = "skip"
    /\ now = 2
    /\ APOLLO_STATUS \in DOMAIN last.rec
    /\ APOLLO_STATUS \notin columns
    /\ \A row \in RowsOf(truth, KeyOf(last.rec)) : row[timestamp_key] = Stamps[1]

\* The row of a@b.com has first name "Jane" and is the only one with that key.
OneJane(rows) ==
    /\ Cardinality(RowsOf(rows, KeyA)) = 1
    /\ \A row \in RowsOf(rows, KeyA) : row[FIRST] = "Jane"

\* C9 as stated: after the insert of the record with empty names, the upsert
\* of the record with first name "Jane" reports update, leaves one row with
\* "Jane", and the row's timestamp differs from the one the insert wrote.
C9_TimestampDiffers ==
    [][(Called /\ last.rec = EmptyNames /\ last.action = "insert" /\ last'.rec = OnlyJane) =>
          /\ last'.action = "update"
          /\ OneJane(truth')
          /\ \A row \in RowsOf(truth, KeyA) : \A row2 \in RowsOf(truth', KeyA) :
                row2[timestamp_key] # row[timestamp_key]]_vars

\* C9 amended: ... and the row's timestamp is the UTC second of the second
\* call, which differs from the insert's exactly when the clock has moved on.
C9_TimestampOfSecondRun ==
    [][(Called /\ last.rec = EmptyNames /\ last.action = "insert" /\ last'.rec = OnlyJane) =>
          /\ last'.action = "update"
          /\ OneJane(truth')
          /\ \A row \in RowsOf(truth, KeyA) : \A row2 \in RowsOf(truth', KeyA) :
                /\ row2[timestamp_key] = Stamps[now]
                /\ row2[timestamp_key] # row[timestamp_key] <=> row[timestamp_key] # Stamps[now]]_vars

\* A batch of the two records returned, the second handled a second later.
C9_Witness ==
    /\ batch.phase = "returned"
    /\ batch.records = <<EmptyNames, OnlyJane>>
    /\ batch.stats.inserted = 1 /\ batch.stats.updated = 1
    /\ OneJane(truth)
    /\ \A row \in RowsOf(truth, KeyA) : row[timestamp_key] = Stamps[2]

\* C10 as stated: the write statement of a call names only columns the store
\* has by then.
C10_StatementColumnsExist ==
    last.stmt # "none" => last.stmt_columns \subseteq columns

(***************************************************************************)
(* upsert_batch                                                            *)
(***************************************************************************)
\* The step is one iteration of the loop of upsert_batch.
Looped == batch.phase = "running" /\ batch'.i = batch.i + 1

\* The database after the step.
DbAfter ==
    [truth |-> truth', columns |-> columns', column_cache |-> column_cache', seq |-> seq']

\* The (identifier, action) pairs upsert_record gives for the records of a
\* list, one after the other, from database db at clock second t.
RECURSIVE Outcomes(_, _, _)
Outcomes(db, records, t) ==
    IF records = <<>> THEN <<>>
    ELSE LET res == upsert_record(db, Head(records), t)
         IN <<[sn |-> res.sn, action |-> res.action]>> \o Outcomes(res.db, Tail(records), t)

\* C11: an iteration of upsert_batch whose upsert raises appends -1 to the
\* identifiers, adds one to failed and the record's key with the error message
\* to failed_records, and leaves the loop running; the records after it get
\* the outcomes they would get from the database as it was before the failed
\* call; and a call that returned has one identifier per input record.
C11_FailureIsolated ==
    /\ [](batch.phase = "returned" => Len(batch.sns) = Len(batch.records))
    /\ [][(Looped /\ last'.action = "error") =>
            LET record == batch.records[batch.i + 1]
                rest == SubSeq(batch.records, batch.i + 2, Len(batch.records))
            IN /\ batch'.phase = "running"
               /\ batch'.sns = Append(batch.sns, -1)
               /\ batch'.stats.failed = batch.stats.failed + 1
               /\ last'.error # ""
               /\ batch'.stats.failed_records =
                     Append(batch.stats.failed_records,
                            [email |-> IF Falsy(Get(record, EMAIL)) THEN "" ELSE record[EMAIL],
                             error |-> last'.error])
               /\ batch'.stats.inserted = batch.stats.inserted
               /\ batch'.stats.updated = batch.stats.updated
               /\ Outcomes(DbAfter, rest, now) = Outcomes(Db, rest, now)]_vars

\* A batch returned whose first record failed on its INSERT after the provider
\* column was added, and whose second record was inserted.
C11_Witness ==
    /\ batch.phase = "returned"
    /\ batch.records = <<NotesVerified, OnlyJane>>
    /\ batch.sns = <<-1, 1>>
    /\ batch.stats.failed = 1 /\ batch.stats.inserted = 1
    /\ batch.stats.failed_records = <<[email |-> KeyA, error |-> "INSERT failed"]>>
    /\ APOLLO_STATUS \in columns

\* C12 as stated: the counts upsert_batch returns sum to the number of input
\* records, and the lists of inserted, updated and failed keys are as long as
\* their counts.
C12_CountsCoverInput ==
    batch.phase = "returned" =>
        /\ batch.stats.inserted + batch.stats.updated + batch.stats.failed = Len(batch.records)
        /\ Len(batch.stats.inserted_emails) = batch.stats.inserted
        /\ Len(batch.stats.updated_emails) = batch.stats.updated
        /\ Len(batch.stats.failed_records) = batch.stats.failed

\* C13 as stated: a call of upsert_record with a record whose natural key is
\* absent or empty raises without issuing a write statement, and changes
\* neither the rows, the columns, the cache nor the sequence.
C13_NoKeyRejectedBeforeStore ==
    [][(Called /\ _is_empty(Get(last'.rec, EMAIL))) =>
          /\ last'.action = "error"
          /\ last'.stmt = "none"
          /\ UNCHANGED <<truth, columns, column_cache, seq>>]_vars

\* C14 as stated: no iteration of upsert_batch counts a record without a
\* natural key as failed and leaves the loop running.
C14_NoKeyIsFatal ==
    [][(Looped /\ Falsy(Get(batch.records[batch.i + 1], EMAIL))) =>
          ~ (batch'.phase = "running" /\ batch'.stats.failed = batch.stats.failed + 1)]_vars


(***************************************************************************)
(* enrich_people_bulk, enrich_organizations_bulk                           *)
(***************************************************************************)
\* The size of the groups of the call: the requested size, the default for
\* None, and never more than ten.
CappedSize ==
    LET asked == IF enrich.batch_size = 0 THEN 25 ELSE enrich.batch_size
    IN IF asked < 10 THEN asked ELSE 10

\* The positions of the input that make up group g.
Slice(g) ==
    LET n == Len(enrich.records)
        upto == IF g * CappedSize < n THEN g * CappedSize ELSE n
    IN ((g - 1) * CappedSize + 1)..upto

Ceil(n, d) == (n + d - 1) \div d

\* The HTTP calls made for a list of provider requests.
RECURSIVE HttpCalls(_)
HttpCalls(sent) == IF sent = <<>> THEN 0 ELSE Head(sent).calls + HttpCalls(Tail(sent))

\* Every provider request of the call was answered at the first attempt.
NoRetries == \A k \in 1..Len(enrich.sent) : enrich.sent[k].calls = 1

\* C15: no provider request covers more than 10 records; the request of group
\* g covers positions (g-1)*size+1 .. g*size of the input, size the requested
\* size capped at 10, and nothing else; a people call that returned without a
\* retry made ceil(n / size) requests, one HTTP call each; and 11 records
\* with a requested size of 25 make 2 requests, the first with 10 details.
C15_GroupsCappedAtTen ==
    /\ \A k \in 1..Len(enrich.sent) :
          LET req == enrich.sent[k]
          IN /\ Len(req.items) <= 10
             /\ req.group \in 1..enrich.i
             /\ Len(req.items) <= Cardinality(Slice(req.group))
             /\ enrich.endpoint = "people" =>
                   /\ Len(req.items) = Cardinality(Slice(req.group))
                   /\ \A j \in 1..Len(req.items) :
                         req.items[j]["first_name"]
                            = enrich.records[(req.group - 1) * CappedSize + j][FIRST]
    /\ \A k \in 1..Len(enrich.sent), m \in 1..Len(enrich.sent) :
          k < m => enrich.sent[k].group < enrich.sent[m].group
    /\ (enrich.phase = "returned" /\ enrich.endpoint = "people") =>
          /\ Len(enrich.sent) = Ceil(Len(enrich.records), CappedSize)
          /\ NoRetries => HttpCalls(enrich.sent) = Ceil(Len(enrich.records), CappedSize)
    /\ (enrich.phase = "returned" /\ enrich.endpoint = "people"
        /\ Len(enrich.records) = 11 /\ enrich.batch_size = 25) =>
          /\ Len(enrich.sent) = 2
          /\ Len(enrich.sent[1].items) = 10
          /\ NoRetries => HttpCalls(enrich.sent) = 2

\* enrich_people_bulk returned for 11 records and a requested size of 25 after
\* two provider calls, of 10 details and of 1.
C15_Witness ==
    /\ enrich.phase = "returned" /\ enrich.endpoint = "people"
    /\ Len(enrich.records) = 11 /\ enrich.batch_size = 25
    /\ NoRetries
    /\ Len(enrich.sent) = 2
    /\ Len(enrich.sent[1].items) = 10 /\ Len(enrich.sent[2].items) = 1

\* The columns the provider's answer may set in a record.
ProviderColumns == {FIRST, LAST, EMAIL, APOLLO_STATUS, COMPANY, WEBSITE, APOLLO_DOMAIN, LISTED}

\* Output record out is input record inp with provider-derived or
\* error-marker fields added: it keeps the keys of inp and the lead's name,
\* every value the provider has no column for, and what it adds is a provider
\* column or the marker; a last name, which only the provider gives, is the
\* one the provider returned for this lead.
DerivedFrom(out, inp) ==
    /\ DOMAIN inp \subseteq DOMAIN out
    /\ out[FIRST] = inp[FIRST]
    /\ \A key \in DOMAIN inp \ ProviderColumns : out[key] = inp[key]
    /\ DOMAIN out \ DOMAIN inp \subseteq ProviderColumns \cup {ERROR_MARKER}
    /\ LAST \in DOMAIN out => out[LAST] = "of " \o inp[FIRST]
    /\ APOLLO_DOMAIN \in DOMAIN out =>
          \E i \in 1..Len(Digits) :
             /\ inp[FIRST] = "Lead " \o Digits[i]
             /\ out[APOLLO_DOMAIN] = "site" \o Digits[i] \o ".com"

\* C16: whatever the provider did for each group, the list enrich_people_bulk
\* returns is as long as its input, and its record at position i is the input
\* record at position i with provider-derived or error-marker fields; while
\* the call runs, all_results holds that for the groups done.
C16_PeopleSameLengthSameOrder ==
    enrich.endpoint = "people" =>
       /\ enrich.phase = "returned" => Len(enrich.all_results) = Len(enrich.records)
       /\ Len(enrich.all_results) <= Len(enrich.records)
       /\ \A i \in 1..Len(enrich.all_results) :
             DerivedFrom(enrich.all_results[i], enrich.records[i])

\* A call of three records in groups of two returned: the first group got a
\* null first match and no second one, the second group failed.
C16_Witness ==
    /\ enrich.phase = "returned" /\ enrich.endpoint = "people"
    /\ Len(enrich.records) = 3 /\ enrich.batch_size = 2
    /\ Len(enrich.all_results) = 3
    /\ DOMAIN enrich.all_results[1] = DOMAIN enrich.records[1]
    /\ DOMAIN enrich.all_results[2] = DOMAIN enrich.records[2]
    /\ ERROR_MARKER \in DOMAIN enrich.all_results[3]

\* C17 as stated: the list enrich_organizations_bulk returns is as long as
\* its input, and its record at position i derives from the input record at
\* position i.
C17_OrgSameLengthSameOrder ==
    (enrich.endpoint = "organizations" /\ enrich.phase = "returned") =>
       /\ Len(enrich.all_results) = Len(enrich.records)
       /\ \A i \in 1..Len(enrich.all_results) :
             DerivedFrom(enrich.all_results[i], enrich.records[i])

\* The domain of the website of the lead at position p, "" when the lead
\* carries no website or one that holds no domain.
SiteOf(p) ==
    LET record == enrich.records[p]
    IN IF WEBSITE \in DOMAIN record /\ record[WEBSITE] \notin {"", " ", "https://"}
       THEN "site" \o Digits[p] \o ".com" ELSE ""

\* The domains of the leads at positions from..upto, in the order of the input.
RECURSIVE SitesOf(_, _)
SitesOf(from, upto) ==
    IF from > upto THEN <<>>
    ELSE (IF SiteOf(from) = "" THEN <<>> ELSE <<SiteOf(from)>>) \o SitesOf(from + 1, upto)

\* The positions of group g, as a pair of bounds.
FirstOf(g) == (g - 1) * CappedSize + 1
LastOf(g) == IF g * CappedSize < Len(enrich.records) THEN g * CappedSize ELSE Len(enrich.records)

\* C18: in an organization lookup, the request made for a group lists the
\* domains of the group's records with a resolvable website, in input order,
\* and nothing else; no request lists no domain, and a group done has a
\* request exactly if one of its records has a resolvable website.
C18_OnlyDomainsSent ==
    enrich.endpoint = "organizations" =>
       /\ \A k \in 1..Len(enrich.sent) :
             LET req == enrich.sent[k]
             IN /\ req.items # <<>>
                /\ req.items = SitesOf(FirstOf(req.group), LastOf(req.group))
       /\ \A g \in 1..enrich.i :
             SitesOf(FirstOf(g), LastOf(g)) # <<>>
                <=> \E k \in 1..Len(enrich.sent) : enrich.sent[k].group = g

\* A call returned whose first group held a company-name-only record and a
\* record with an unresolvable website and made no request, and whose second
\* group made a request for its one domain.
C18_Witness ==
    /\ enrich.phase = "returned" /\ enrich.endpoint = "organizations"
    /\ Len(enrich.records) = 3 /\ enrich.batch_size = 2
    /\ COMPANY \in DOMAIN enrich.records[1]
    /\ Get(enrich.records[2], WEBSITE) = "https://"
    /\ Len(enrich.sent) = 1
    /\ enrich.sent[1].group = 2
    /\ enrich.sent[1].items = <<"site3.com">>

(***************************************************************************)
(* _make_request                                                           *)
(***************************************************************************)
\* The step is one HTTP call of the request in progress.
Posted == request.phase = "running" /\ Len(request'.calls) = Len(request.calls) + 1

\* What the HTTP call of the step gave.
Got == request'.calls[Len(request'.calls)].outcome

\* A 4xx status other than 429, or a network error that is no timeout.
ClientError(outcome) ==
    \/ outcome.kind = "response" /\ outcome.status \in 400..499 /\ outcome.status # 429
    \/ outcome.kind = "error"

\* 429, 5xx or a timeout
Transient(outcome) ==
    \/ outcome.kind = "response" /\ (outcome.status = 429 \/ outcome.status \in 500..599)
    \/ outcome.kind = "timeout"

\* C19: an HTTP call answered with a 4xx status other than 429, or failing
\* with a network error other than a timeout, ends the request with an
\* ApolloAPIError that carries the status or the message, with no delay taken
\* for it; and a request ended that way made no call after that one.
C19_ClientErrorIsTerminal ==
    /\ [](\A k \in 1..Len(request.calls) :
             ClientError(request.calls[k].outcome) =>
                k = Len(request.calls) /\ request.phase = "raised")
    /\ [][(Posted /\ ClientError(Got)) =>
            /\ request'.phase = "raised"
            /\ request'.delays = request.delays
            /\ request'.attempt = request.attempt
            /\ IF Got.kind = "response"
               THEN request'.error = "API error" /\ request'.status = Got.status
               ELSE request'.error = "Request failed"]_vars

\* A request that raised on a 404 answer to its third call, after two delays.
C19_Witness ==
    /\ request.phase = "raised"
    /\ request.error = "API error" /\ request.status = 404
    /\ Len(request.calls) = 3
    /\ Len(request.delays) = 2

RECURSIVE Doubled(_, _)
Doubled(initial, k) == IF k = 0 THEN initial ELSE Doubled(initial + initial, k - 1)

\* C21: the k-th delay of a request (k = 0 for the first) is the smaller of
\* initial_backoff * 2^k and max_backoff, whatever outcomes caused the
\* retries; the delays never decrease and none is above max_backoff.
C21_BackoffDoublesUpToCap ==
    LET initial == request.cfg.initial_backoff
        cap == request.cfg.max_backoff
    IN /\ \A k \in 0..(Len(request.delays) - 1) :
             /\ request.delays[k + 1] = IF Doubled(initial, k) < cap THEN Doubled(initial, k) ELSE cap
             /\ request.delays[k + 1] <= cap
             /\ k > 0 => request.delays[k] <= request.delays[k + 1]
       /\ (Len(request.delays) >= 3 /\ 4 * initial <= cap) =>
             SubSeq(request.delays, 1, 3) = <<initial, 2 * initial, 4 * initial>>
       /\ Len(request.delays) = Cardinality({k \in 1..Len(request.calls) :
                                                Transient(request.calls[k].outcome)})

\* A request under a cap of 2 that slept 1, 2 and 2 after a timeout, a 429
\* and a 5xx, in that order.
C21_Witness ==
    /\ request.cfg.max_backoff = 2
    /\ request.delays = <<1, 2, 2>>
    /\ Len(request.calls) = 3
    /\ request.calls[1].outcome.kind = "timeout"
    /\ request.calls[2].outcome.status = 429
    /\ request.calls[3].outcome.status = 500

\* The provider requests made for group g.
SentFor(g) == {k \in 1..Len(enrich.sent) : enrich.sent[k].group = g}

\* The try block of group g caught an exception.
Failed(g) == \E k \in SentFor(g) : enrich.sent[k].error # ""

\* C22: the records returned for a group carry the error marker exactly if the
\* group's request ended in a terminal failure or in exhausted retries or its
\* answer could not be parsed, all of them or none; the records of every
\* group done are in all_results, so no failure ends the call; and every
\* group after a failed one has its request made (in an organization lookup,
\* if it has a domain to send).
C22_FailureMarksItsGroupOnly ==
    /\ Len(enrich.all_results) = (IF enrich.i = 0 THEN 0 ELSE LastOf(enrich.i))
    /\ \A g \in 1..enrich.i : \A p \in FirstOf(g)..LastOf(g) :
          ERROR_MARKER \in DOMAIN enrich.all_results[p] <=> Failed(g)
    /\ \A g \in 1..enrich.i :
          Cardinality(SentFor(g)) =
             IF enrich.endpoint = "people" \/ SitesOf(FirstOf(g), LastOf(g)) # <<>>
             THEN 1 ELSE 0
    /\ \A k \in 1..Len(enrich.sent) :
          enrich.sent[k].error # "" <=>
             \/ enrich.sent[k].calls = APOLLO_MAX_RETRIES
             \/ enrich.sent[k].error \in {"API error", "'str' object has no attribute 'get'"}

\* A people call of three groups returned: the first group's request was
\* refused, the second's answer could not be parsed, the third's was matched.
C22_Witness ==
    /\ enrich.phase = "returned" /\ enrich.endpoint = "people"
    /\ Len(enrich.records) = 3 /\ enrich.batch_size = 1
    /\ Len(enrich.sent) = 3
    /\ enrich.sent[1].error = "API error"
    /\ enrich.sent[2].error = "'str' object has no attribute 'get'"
    /\ enrich.sent[3].error = ""
    /\ ERROR_MARKER \in DOMAIN enrich.all_results[1]
    /\ ERROR_MARKER \in DOMAIN enrich.all_results[2]
    /\ ERROR_MARKER \notin DOMAIN enrich.all_results[3]

(***************************************************************************)
(* ExcelIngestor.process_file                                              *)
(***************************************************************************)
\* process_file has returned.
Done == ingest.op = "process_file" /\ ingest.at = "returned"

\* The result carries processing_failed.
Flagged(results) == "processing_failed" \in DOMAIN results /\ results.processing_failed

\* The entry the except clause appends.
IsFailureEntry(entry) ==
    entry.email = "N/A" /\ StartsWith(entry.message, "Processing failed: ")

\* No request went to the provider and nothing was written to the store.
Untouched ==
    /\ ingest.sent = <<>>
    /\ ~ ingest.saved
    /\ truth = {} /\ insert_log = <<>> /\ seq = 0
    /\ columns = BASE_COLUMNS \cup PIPELINE_COLUMNS

\* C23: every exception raised in a stage of process_file ends in a returned
\* result that carries processing_failed and an "N/A" error entry; a run in
\* which no stage raised returns a result without the flag, in which each
\* failed lookup appears as masked per-record error entries and each record
\* the store refused appears in failed_records.
C23_FailuresAreReturned ==
    Done =>
        LET results == ingest.results
            errors == results.errors
        IN /\ ingest.stage \in {"parse", "validate", "enrich"} <=> Flagged(results)
           /\ Flagged(results) =>
                 /\ Len(errors) = 1 /\ IsFailureEntry(errors[1])
                 /\ results.failed = results.total_processed
           /\ ingest.stage = "complete" =>
                 /\ \A e \in 1..Len(errors) : ~ IsFailureEntry(errors[e])
                 /\ \A k \in 1..Len(ingest.sent) :
                       ingest.sent[k].error # "" =>
                          \E e \in 1..Len(errors) :
                             /\ errors[e].message = ingest.sent[k].error
                             /\ \E i \in 1..Len(ingest.df.data) :
                                   errors[e].email = mask_pii(ingest.df.data[i][EMAIL])
                 /\ Len(results.failed_records) = results.failed
                 /\ results.new_inserts + results.updates + results.failed
                       <= results.total_processed

\* The enrichment stage raised and process_file returned the flagged result.
C23_Witness ==
    /\ Done /\ ingest.stage = "enrich"
    /\ Flagged(ingest.results)
    /\ ingest.results.total_processed = 2 /\ ingest.results.failed = 2
    /\ ingest.sent # <<>> /\ ~ ingest.saved

\* The input of the call has no column that maps to the email column.
Unkeyed(call) == \A col \in call.file.df.columns : Standard(col) # EMAIL

\* The file is over the size ceiling, or its sheet over config.MAX_ROWS.
OverCeiling(call) ==
    \/ call.file.size_mb > MAX_FILE_SIZE_MB
    \/ call.max_rows > 0 /\ Len(call.file.df.data) > call.max_rows

\* The failure is reported, nothing was requested and nothing written.
ReportedUpfront ==
    /\ Flagged(ingest.results)
    /\ Len(ingest.results.errors) = 1 /\ IsFailureEntry(ingest.results.errors[1])
    /\ Untouched

\* C24 as stated: an input without email column, or over a ceiling, is
\* reported as a failure before any provider request and any store write.
C24_ContractFailureReportedUpfront ==
    Done /\ (Unkeyed(ingest.call) \/ OverCeiling(ingest.call)) => ReportedUpfront

\* C24, amended: an input over a ceiling, or without email column and with
\* a row that survives normalization, is reported as a failure before any
\* provider request and any store write; an input without email column of
\* which no row survives returns the empty result, also with no request and
\* no write.
C24_KeylessRowsReportedUpfront ==
    Done =>
        /\ OverCeiling(ingest.call) => ReportedUpfront
        /\ Unkeyed(ingest.call) /\ ~ OverCeiling(ingest.call) =>
              /\ Untouched
              /\ IF Len(ingest.frames[2].data) > 0 THEN ReportedUpfront
                 ELSE /\ ~ Flagged(ingest.results)
                      /\ ingest.results.empty_reason = "no_valid_rows"

\* A sheet without email column and with three rows was handed to an
\* ingestor that has a client, and the failure was reported.
C24_Witness ==
    /\ Done /\ Unkeyed(ingest.call) /\ ingest.call.client # None
    /\ ingest.stage = "validate"
    /\ Len(ingest.frames[2].data) = 3
    /\ ReportedUpfront

\* C25: when normalization or deduplication leaves no row, process_file
\* returns empty_reason "no_valid_rows", total_processed 0, no flag and no
\* error entry, and has made no provider request and no store write.
C25_EmptyIsNotFailure ==
    Done /\ Len(ingest.frames) >= 2 /\ Len(ingest.frames[Len(ingest.frames)].data) = 0 =>
        /\ ingest.results.empty_reason = "no_valid_rows"
        /\ ingest.results.total_processed = 0
        /\ ~ Flagged(ingest.results)
        /\ ingest.results.errors = <<>>
        /\ Untouched

\* Three rows were parsed, none of them survived normalization, and the
\* ingestor has a client and both flags set.
C25_Witness ==
    /\ Done /\ ingest.stage = "normalize"
    /\ ingest.call = Call(ingest.call.file, 0, Enriching)
    /\ EMAIL \in ingest.frames[1].columns
    /\ Len(ingest.frames[1].data) = 3 /\ Len(ingest.frames[2].data) = 0
    /\ ingest.results.empty_reason = "no_valid_rows"

\* The emails of the records process_file handed to upsert_batch.
Persisted ==
    IF ingest.saved THEN [k \in 1..Len(batch.records) |-> batch.records[k][EMAIL]]
    ELSE <<>>

\* C27: every record of the deduplicated frame that has an email is handed
\* to upsert_batch exactly once, whatever became of its enrichment.
C27_EveryKeyedRecordPersistedOnce ==
    Done /\ Len(ingest.frames) = 3 =>
        \A i \in 1..Len(ingest.frames[3].data) :
            LET email == ingest.frames[3].data[i][EMAIL]
            IN email # "" =>
                  Cardinality({k \in 1..Len(Persisted) : Persisted[k] = email}) = 1

(***************************************************************************)
(* ExcelIngestor.save_to_database, deduplication, normalize_dataframe      *)
(***************************************************************************)
\* The value is an absent or empty natural key.
NoKey(value) == IsNa(value) \/ value = ""

\* The positions of the rows of df that have no natural key.
Keyless(df) ==
    {i \in 1..Len(df.data) : EMAIL \notin df.columns \/ NoKey(df.data[i][EMAIL])}

\* C26: save_to_database hands upsert_batch no record whose email is absent
\* or empty; it counts each such row in skipped_no_email, and every other
\* row is handed on, in order, and is in the store afterwards.
C26_KeylessRecordsSkipped ==
    ingest.op = "save_to_database" =>
        LET df == ingest.df
            keyed == Ascending((1..Len(df.data)) \ Keyless(df))
        IN /\ \A k \in 1..Len(batch.records) :
                 /\ EMAIL \in DOMAIN batch.records[k]
                 /\ ~ NoKey(batch.records[k][EMAIL])
           /\ ingest.stats.skipped_no_email = Cardinality(Keyless(df))
           /\ Len(batch.records) = Len(keyed)
           /\ \A k \in 1..Len(keyed) :
                 /\ batch.records[k][EMAIL] = df.data[keyed[k]][EMAIL]
                 /\ \E row \in truth : row[EMAIL] = df.data[keyed[k]][EMAIL]

\* Of three rows, one has NaN and one has "" for email: two are skipped and
\* the third is upserted.
C26_Witness ==
    /\ ingest.op = "save_to_database"
    /\ Len(ingest.df.data) = 3
    /\ EMAIL \in ingest.df.columns
    /\ ingest.df.data[1][EMAIL] = NaN
    /\ ingest.df.data[2][EMAIL] = ""
    /\ ingest.stats.skipped_no_email = 2
    /\ Len(batch.records) = 1
    /\ ingest.stats.inserted = 1

\* The key columns of the deduplication called last.
KeyColumns ==
    IF ingest.op = "deduplicate_by_email" THEN {EMAIL} ELSE {FIRST, LAST, COMPANY}

\* Rows i and j of df have the same values in the columns cols.
SameKey(df, cols, i, j) == \A c \in cols : df.data[i][c] = df.data[j][c]

\* C28: deduplicate_by_email and deduplicate_by_name_and_company return the
\* rows of the input whose key occurs at no earlier row, with their labels,
\* in the input's order; applied to their own result they return it as it is.
C28_FirstOccurrenceKept ==
    ingest.op \in {"deduplicate_by_email", "deduplicate_by_name_and_company"}
    /\ KeyColumns \subseteq ingest.df.columns =>
        LET df == ingest.df
            out == ingest.out
        IN /\ out.columns = df.columns
           /\ \E at \in [1..Len(out.data) -> 1..Len(df.data)] :
                 /\ \A k \in 1..Len(out.data) :
                       /\ out.data[k] = df.data[at[k]]
                       /\ out.index[k] = df.index[at[k]]
                       /\ \A j \in 1..(at[k] - 1) : ~ SameKey(df, KeyColumns, at[k], j)
                       /\ \A l \in 1..(k - 1) : at[l] < at[k]
                 /\ \A i \in 1..Len(df.data) :
                       \E k \in 1..Len(out.data) : SameKey(df, KeyColumns, i, at[k])
           /\ ingest.again => out = df

\* The first and the third of three rows have the same email, and the
\* second row and the first of these are returned.
C28_Witness ==
    /\ ingest.op = "deduplicate_by_email" /\ ~ ingest.again
    /\ Len(ingest.df.data) = 3 /\ Len(ingest.out.data) = 2
    /\ ingest.df.data[1][EMAIL] = ingest.df.data[3][EMAIL]
    /\ ingest.df.data[1][FIRST] # ingest.df.data[3][FIRST]
    /\ ingest.out.data[1] = ingest.df.data[1]

\* C29: normalize_dataframe gives a row the lead source "Excel Upload", or
\* the caller's, and the consent "No" where the input has none, and keeps
\* the lead source and the consent the input has.
C29_DefaultsOnlyWhereMissing ==
    ingest.op = "normalize_dataframe" =>
        \A k \in 1..Len(ingest.out.data) :
            LET i == CHOOSE i \in 1..Len(ingest.df.data) :
                        ingest.df.index[i] = ingest.out.index[k]
                given == ingest.df.data[i]
                Missing(c) == c \notin ingest.df.columns \/ IsNa(given[c]) \/ given[c] = ""
            IN /\ ingest.out.data[k][LEAD_SOURCE] =
                     IF ~ Missing(LEAD_SOURCE) THEN given[LEAD_SOURCE]
                     ELSE IF ingest.lead_source # None THEN ingest.lead_source
                     ELSE "Excel Upload"
               /\ ingest.out.data[k][EMAIL_SEND_COLUMN] =
                     IF ~ Missing(EMAIL_SEND_COLUMN) THEN given[EMAIL_SEND_COLUMN] ELSE "No"

(***************************************************************************)
(* _SQLiteBackend.ensure_apollo_columns                                    *)
(***************************************************************************)
\* C30: a call of ensure_apollo_columns with names the table already has
\* from earlier calls runs no ALTER TABLE, raises nothing, and leaves the
\* table's columns, the cache and the rows as they were.
C30_EnsureIsIdempotent ==
    [][last'.action = "ensure_apollo_columns" /\ last'.rec \subseteq columns =>
          /\ last'.stmt = "none" /\ last'.stmt_columns = {}
          /\ last'.error = ""
          /\ columns' = columns
          /\ column_cache' = column_cache
          /\ truth' = truth]_vars

\* Two provider columns were added by a call, and the call was made again.
C30_Witness ==
    /\ last.action = "ensure_apollo_columns"
    /\ last.prev = "ensure_apollo_columns" /\ last.rel = "same"
    /\ last.rec = {"Apollo Person: Seniority", "Apollo Company: Founded Year"}
    /\ last.rec \subseteq columns /\ last.rec \subseteq column_cache
    /\ last.stmt = "none"

(***************************************************************************)
(* ApolloClient._make_request: the backoff and the timeout                 *)
(***************************************************************************)
\* The step sleeps a backoff delay.
Slept == Len(request'.delays) = Len(request.delays) + 1

\* C31: a step of a request that sleeps a backoff delay leaves the request
\* running, so that the delay is followed by a new HTTP call; a request that
\* has ended made more calls than it slept delays.
C31_BackoffFollowedByAttempt ==
    /\ [](request.phase \in {"returned", "raised"} =>
             Len(request.delays) < Len(request.calls))
    /\ [][Slept => request'.phase = "running"]_vars

\* The timeouts of the HTTP calls of the request, in order.
Timeouts == [k \in 1..Len(request.calls) |-> request.calls[k].timeout]

\* The call after call k was caused by a timeout.
AfterTimeout(k) == request.calls[k].outcome.kind = "timeout"

RECURSIVE PositionsWithSite(_, _)
PositionsWithSite(from, upto) ==
    IF from > upto THEN <<>>
    ELSE (IF SiteOf(from) = "" THEN <<>> ELSE <<from>>) \o PositionsWithSite(from + 1, upto)

\* The input positions of the records handed to the parser with the answer
\* of request req, in the order handed.
Parsed(req) ==
    IF enrich.endpoint = "people"
    THEN [j \in 1..Len(req.items) |-> FirstOf(req.group) + j - 1]
    ELSE PositionsWithSite(FirstOf(req.group), LastOf(req.group))

\* The answer of request req has no match for the j-th record parsed.
Unmatched(req, j) == j > Len(req.matches) \/ req.matches[j] = EmptyRecord

\* C33: a record at whose position the matches array of an answer parsed has
\* no entry, or a null or empty one, is returned equal to the input record;
\* and every input record of the groups done is returned once, with every
\* key it came with.
C33_UnmatchedUnchangedKeysKept ==
    /\ \A k \in 1..Len(enrich.sent) :
          LET req == enrich.sent[k]
          IN req.error = "" =>
                \A j \in 1..Len(Parsed(req)) :
                    Unmatched(req, j) =>
                       enrich.all_results[FirstOf(req.group) + j - 1]
                          = enrich.records[Parsed(req)[j]]
    /\ \A p \in 1..Len(enrich.all_results) :
          LET same == {i \in 1..Len(enrich.all_results) :
                          enrich.all_results[i][FIRST] = enrich.records[p][FIRST]}
          IN /\ Cardinality(same) = 1
             /\ \A i \in same :
                   /\ DOMAIN enrich.records[p] \subseteq DOMAIN enrich.all_results[i]
                   /\ (i - 1) \div CappedSize = (p - 1) \div CappedSize

\* An organization lookup of three records with a website in one group
\* returned: the answer held a null first match and no third one, so the
\* first and third record came back as given and the second one enriched.
C33_Witness ==
    /\ enrich.phase = "returned" /\ enrich.endpoint = "organizations"
    /\ Len(enrich.records) = 3 /\ Len(enrich.sent) = 1
    /\ enrich.sent[1].error = ""
    /\ Len(enrich.sent[1].items) = 3
    /\ Len(enrich.sent[1].matches) = 2
    /\ enrich.sent[1].matches[1] = EmptyRecord
    /\ enrich.all_results[1] = enrich.records[1]
    /\ enrich.all_results[3] = enrich.records[3]
    /\ APOLLO_DOMAIN \in DOMAIN enrich.all_results[2]
    /\ DOMAIN enrich.records[2] \subseteq DOMAIN enrich.all_results[2]

(***************************************************************************)
(* _SQLiteBackend.get_cursor under upsert_batch                            *)
(***************************************************************************)
\* The step leaves the rows as they were: the same number of rows, each with
\* the value it had in every column the table had, and NULL in a column the
\* step added; and the AUTOINCREMENT sequence as it was.
RowsAsBefore ==
    /\ seq' = seq
    /\ Cardinality(truth') = Cardinality(truth)
    /\ \A row \in truth :
          \E after \in truth' :
             /\ \A c \in columns : after[c] = row[c]
             /\ \A c \in columns' \ columns : after[c] = None

\* The row written for record k of the batch is in the table.
Kept(k) ==
    \E row \in truth :
       /\ row[SN] = batch.sns[k]
       /\ \A c \in DOMAIN batch.records[k] \ {SN, timestamp_key} :
             _has_value(batch.records[k][c]) => row[c] = batch.records[k][c]

\* C34: an iteration of upsert_batch whose INSERT or UPDATE statement raises
\* leaves the rows as they were; and at every point of a batch the rows
\* written for the records done that did not fail are in the table, whatever
\* failed before or after them.
C34_FailedRecordRolledBackAlone ==
    /\ [][(Looped /\ last'.action = "error" /\ last'.stmt \in {"INSERT", "UPDATE"}) =>
             RowsAsBefore]_vars
    /\ [](\A k \in 1..Len(batch.sns) : batch.sns[k] # -1 => Kept(k))

\* A batch of three returned: the first record was inserted, the UPDATE of
\* the second failed after its provider column was added, the third was
\* inserted; both rows are in the table, the first with the name it was
\* inserted with and without a value in the provider column.
C34_Witness ==
    /\ batch.phase = "returned"
    /\ batch.records = WrittenFailedWritten
    /\ batch.sns = <<1, -1, 2>>
    /\ batch.stats.failed_records = <<[email |-> KeyA, error |-> "UPDATE failed"]>>
    /\ Cardinality(truth) = 2
    /\ \E row \in truth :
          row[EMAIL] = KeyA /\ row[FIRST] = "Jane" /\ row[APOLLO_STATUS] = None
    /\ \E row \in truth : row[EMAIL] = KeyC /\ row[FIRST] = "Joan"

(***************************************************************************)
(* upsert_record under two callers                                         *)
(***************************************************************************)
\* Both callers have returned from calls that raced, each with an update of
\* the row of the one key.
RacedUpdates ==
    \A p \in Callers :
        threads[p].pc = "done" /\ threads[p].raced /\ threads[p].action = "update"

\* C35 as stated: when two upsert_record calls for one existing key have
\* interleaved, each looking up before the other wrote, and both have
\* returned, every field either call filled holds in the row a value that a
\* call filled it with.
C35_NoFillErasedByRace ==
    RacedUpdates =>
        \A p \in Callers : \A key \in threads[p].filled :
            \E row \in truth :
               /\ row[EMAIL] = threads[p].rec[EMAIL]
               /\ \E q \in Callers :
                     key \in threads[q].filled /\ row[key] = threads[q].rec[key]

(***************************************************************************)
(* enrich_records: the company lookup merged back into the table           *)
(***************************************************************************)
\* enrich_records has merged the company lookup into the table.
CompaniesMerged ==
    /\ ingest.op = "process_file"
    /\ ingest.call.client # None /\ ingest.call.enrich_companies
    /\ ingest.at = "save" \/ (ingest.at = "returned" /\ ingest.stage = "complete")

\* C36 as stated: after the company lookup is merged, the provider-derived
\* company domain of row i is the domain of row i's own website, a row
\* without website has none, and the address and the first name of row i are
\* the ones it had before the lookups.
C36_CompanyFieldsOfOwnDomain ==
    CompaniesMerged =>
        \A i \in 1..Len(ingest.df.data) :
            LET before == ingest.frames[3].data[i]
                after == ingest.df.data[i]
            IN /\ after[EMAIL] = before[EMAIL]
               /\ after[FIRST] = before[FIRST]
               /\ APOLLO_DOMAIN \in ingest.df.columns =>
                     after[APOLLO_DOMAIN] \in {"", before[WEBSITE]}

(***************************************************************************)
(* enrich_people_bulk: the natural key                                     *)
(***************************************************************************)
\* C37 as stated: every record the people lookup returns for an input record
\* with a non-empty address carries that address.
C37_PeopleLookupKeepsKey ==
    enrich.endpoint = "people" =>
        \A i \in 1..Len(enrich.all_results) :
            HasText(enrich.records[i], EMAIL) =>
                enrich.all_results[i][EMAIL] = enrich.records[i][EMAIL]

(***************************************************************************)
(* _make_request under enrich_people_bulk, enrich_organizations_bulk       *)
(***************************************************************************)
\* The status is none the client returns on or retries.
Unhandled(status) == status \notin {0, 200, 429} \cup 500..599

\* The output records of group g.
OutputOf(g) == {enrich.all_results[i] : i \in Slice(g) \cap 1..Len(enrich.all_results)}

\* C38: an HTTP call answered with a status that is not 200, 429 or 5xx (a
\* 204 or a 302 as well as a 4xx) is the last call of its request, the
\* request raises the API error without any retry of that call, and every
\* record of the group comes back with the error marker set to that error.
C38_OtherStatusIsTerminal ==
    \A k \in 1..Len(enrich.sent) :
        LET req == enrich.sent[k]
        IN \A j \in 1..Len(req.statuses) :
              Unhandled(req.statuses[j]) =>
                 /\ j = Len(req.statuses)
                 /\ req.calls = j
                 /\ req.error = "API error"
                 /\ Cardinality(OutputOf(req.group)) = Cardinality(Slice(req.group))
                 /\ \A out \in OutputOf(req.group) :
                       ERROR_MARKER \in DOMAIN out /\ out[ERROR_MARKER] = "API error"

\* A people lookup of three records in groups of two returned: the request
\* of the first group was answered 204 and that of the second 302, each
\* made one call, and all three records carry the marker.
C38_Witness ==
    /\ enrich.phase = "returned" /\ enrich.endpoint = "people"
    /\ Len(enrich.records) = 3 /\ enrich.batch_size = 2
    /\ Len(enrich.sent) = 2
    /\ enrich.sent[1].statuses = <<204>> /\ enrich.sent[2].statuses = <<302>>
    /\ enrich.sent[1].calls = 1 /\ enrich.sent[2].calls = 1
    /\ \A i \in 1..3 : Get(enrich.all_results[i], ERROR_MARKER) = "API error"

(***************************************************************************)
(* save_to_database: internal fields                                       *)
(***************************************************************************)
\* The name is that of an internal field.
Internal(key) == StartsWith(key, "_")

\* C39: no column of the table and no name in the column cache starts with
\* an underscore, no row holds such a field, and no record save_to_database
\* hands to upsert_batch has one.
C39_InternalFieldsNeverStored ==
    /\ \A c \in columns \cup column_cache : ~ Internal(c)
    /\ \A row \in truth : \A c \in DOMAIN row : ~ Internal(c)
    /\ \A k \in 1..Len(batch.records) : \A c \in DOMAIN batch.records[k] : ~ Internal(c)

\* A run in which the people lookup failed was saved: the rows of the table
\* carried the error marker, and the records were inserted without it.
C39_Witness ==
    /\ ingest.op = "process_file" /\ ingest.saved
    /\ ERROR_MARKER \in ingest.df.columns
    /\ Len(ingest.df.data) = 2
    /\ \A i \in 1..2 : ~ Falsy(ingest.df.data[i][ERROR_MARKER])
    /\ Len(batch.records) = 2
    /\ Cardinality(truth) = 2
    /\ batch.stats.inserted = 2


(***************************************************************************)
(* column_cache and the table's columns                                    *)
(***************************************************************************)
\* The columns the manager's connection can see: those of the table and
\* those added in its open transaction, unless that transaction has failed.
Existing == columns \cup (IF alter.aborted THEN {} ELSE alter.pending)

\* C40: in every reachable state the cached column names are columns that
\* exist in the store, also after a call in which a later addition failed
\* and the transaction was rolled back.
C40_CacheWithinColumns == column_cache \subseteq Existing

\* The same for SQLite alone, where every addition takes effect at once.
C40_SQLiteCacheWithinColumns == alter.backend = "sqlite" => column_cache \subseteq columns

\* A SQLite call that added a column and then raised on the next one.
C40_SQLiteWitness ==
    /\ alter.backend = "sqlite" /\ alter.pc = "idle" /\ alter.raised
    /\ column_cache # BASE_COLUMNS

====
